---- MODULE Spec2Model ----
(***************************************************************************)
(* Tool-use orchestration engine of chat-mcp-client: the Execution Tracker *)
(* (DynamicExecution), the Tool Registry (DynamicDiscovery), the cache     *)
(* store (CacheService) and the Orchestrator (DynamicFlow).                *)
(*                                                                         *)
(* Time is counted in units of 15 seconds.  Every timestamp the code keeps *)
(* is only ever read as "Date.now() - stamp", so the model keeps that      *)
(* difference (saturating at the value beyond which the code no longer     *)
(* distinguishes it) and a remaining time-to-live for every cache entry.   *)
(***************************************************************************)
EXTENDS Integers, Sequences, FiniteSets, TLC

(***************************************************************************)
(* Bounds of the model.                                                    *)
(***************************************************************************)
\* executeTool calls that are started.
MaxExecutions == 2
\* The value at which the error count of a server is no longer told apart.
MaxErrorCount == 4
\* Steps of the clock of the registry.
MaxClock == 3
\* Requests handed to processUserRequest.
MaxRequests == 1
\* Times the user asks for a change of a plan that is already a modified one.
MaxModifications == 1
\* Requests served by the routes of the tool servers.
MaxServed == 3

(***************************************************************************)
(* Program constants, in units of 15 s.                                    *)
(***************************************************************************)
TTL_TOOL_SCHEMA == 240
TTL_TOOL_DISCOVERY == 40
TTL_LLM_ANALYSIS == 120
EXECUTION_TTL == 240
maxRetries == 3
circuitBreakerTimeout == 4
discoveryCooldown == 2

(***************************************************************************)
(* JavaScript values that flow through the tracker and the cache.          *)
(***************************************************************************)
Undefined == [t |-> "undefined", v |-> ""]
Str(s) == [t |-> "string", v |-> s]
Num(s) == [t |-> "number", v |-> s]
Obj(s) == [t |-> "object", v |-> s]
Null == [t |-> "null", v |-> ""]

\* `${x}` : the string a template literal makes of a value.
TemplateString(x) ==
    CASE x.t = "string" -> x.v
      [] x.t = "number" -> x.v
      [] x.t = "object" -> "[object Object]"
      [] OTHER -> "undefined"

\* if (x) : JavaScript truthiness.
Truthy(x) ==
    CASE x.t = "string" -> x.v # ""
      [] x.t = "number" -> x.v # "0"
      [] x.t = "object" -> TRUE
      [] x.t = "array" -> TRUE
      [] OTHER -> FALSE

\* x.k : the property k of a value that is neither null nor undefined; an
\* object is the function from its keys to their values.
Get(x, k) == IF x.t = "object" /\ k \in DOMAIN x.v THEN x.v[k] ELSE Undefined

\* typeof x === 'object'
TypeofObject(x) == x.t \in {"object", "array", "null"}

(***************************************************************************)
(* Universe of the Execution Tracker.                                      *)
(***************************************************************************)
MCP_SERVERS == <<"s1", "s2">>
Servers == {MCP_SERVERS[i] : i \in 1..Len(MCP_SERVERS)}
ToolNames == {"t1", "t2"}
ClientTools == {"t1"}
RefreshTools == {"t1"}
Registries == {"reg1"}
SchemaVersions == {"v1", "v2"}
FetchOutcomes == {"ok", "fails"}
\* Parameter objects: functions from their keys to their values.
EmptyObject == [k \in {} |-> 0]
Parameters == {EmptyObject, [a |-> 1]}
ToolResults == {Obj("o1"), Undefined}
Callers == {"client", "flow"}
Clients == {"client"}
ExecIds == 1..MaxExecutions
ExecStates == <<"running", "completed", "cancelled">>
ToolOf(server) == IF server = "s1" THEN "t1" ELSE "t2"
Catalog(server) ==
    IF server = "s1"
      THEN {<<[name |-> ToolOf(server), schema |-> v]>> : v \in SchemaVersions}
      ELSE {<<>>, <<[name |-> ToolOf(server), schema |-> "v1"]>>}

VARIABLES
    toolSchemaCache,   \* Redis keys tool:schema:<server>:<toolName>
    execStore,         \* Redis keys execution:<id>:<state>
    nextExecId,        \* generateExecutionId: the next fresh identifier
    calls,             \* the executeTool call of each caller
    lastSuccess,       \* history: last completed result per (tool, parameters)
    observed,          \* history: last getExecutionStatus answer per id
    serverErrorCounts, \* DynamicDiscovery.serverErrorCounts of each registry
    timeSinceLastAttempt, \* Date.now() - lastDiscoveryAttempt of each registry
    toolDiscoveryCache,\* Redis keys tool:discovery:<server>
    serverTools,       \* the tools each tool server lists at the moment
    lastOp,            \* history: the last registry operation and its outcome
    lastGet,           \* history: the last getAllTools answer, while still comparable
    fetchLog,          \* history: what the fetches of getAllTools came to, per server
    clock,             \* the single time units that have passed so far
    llmAnalysisCache,  \* Redis keys llm:analysis:<cacheKey>
    flow,              \* DynamicFlow: where processUserRequest stands
    trace,             \* history: what the current request has set off
    requests,          \* the requests processed so far
    evaluation         \* a call of a function without side effects, and its outcome

execVars == <<execStore, nextExecId, calls, lastSuccess, observed>>
regVars == <<serverErrorCounts, timeSinceLastAttempt, toolDiscoveryCache,
             serverTools, lastOp, lastGet, fetchLog>>
flowVars == <<flow, trace, requests>>
clockVars == <<clock, evaluation>>
vars == <<toolSchemaCache, llmAnalysisCache, execVars, regVars, flowVars, clockVars>>

(***************************************************************************)
(* Text the code inspects is a sequence of characters; text it only hands  *)
(* on is a string.                                                         *)
(***************************************************************************)
UpperCaseLetters ==
    <<"A", "B", "C", "D", "E", "F", "G", "H", "I", "J", "K", "L", "M",
      "N", "O", "P", "Q", "R", "S", "T", "U", "V", "W", "X", "Y", "Z">>
LowerCaseLetters ==
    <<"a", "b", "c", "d", "e", "f", "g", "h", "i", "j", "k", "l", "m",
      "n", "o", "p", "q", "r", "s", "t", "u", "v", "w", "x", "y", "z">>
WhiteSpace == {" ", "\n", "\t"}

\* String.prototype.toLowerCase
ToLowerCase(text) ==
    [i \in 1..Len(text) |->
        IF \E j \in 1..Len(UpperCaseLetters) : UpperCaseLetters[j] = text[i]
          THEN LowerCaseLetters[CHOOSE j \in 1..Len(UpperCaseLetters) :
                                    UpperCaseLetters[j] = text[i]]
          ELSE text[i]]

\* text.startsWith(part, i - 1): part occurs in text at position i.
OccursAt(text, part, i) ==
    /\ i >= 1
    /\ i + Len(part) - 1 <= Len(text)
    /\ SubSeq(text, i, i + Len(part) - 1) = part

\* String.prototype.includes
Includes(text, part) == \E i \in 1..(Len(text) + 1) : OccursAt(text, part, i)

\* String.prototype.trim
RECURSIVE TrimStart(_)
TrimStart(text) ==
    IF text # <<>> /\ Head(text) \in WhiteSpace THEN TrimStart(Tail(text)) ELSE text
RECURSIVE TrimEnd(_)
TrimEnd(text) ==
    IF text # <<>> /\ text[Len(text)] \in WhiteSpace
      THEN TrimEnd(SubSeq(text, 1, Len(text) - 1)) ELSE text
Trim(text) == TrimEnd(TrimStart(text))

\* value || fallback, for texts: the empty text is falsy.
OrElse(text, fallback) == IF text # <<>> THEN text ELSE fallback

\* The least of a set of positions.
First(positions) == CHOOSE x \in positions : \A y \in positions : x <= y

\* The characters of a text as one string.
RECURSIVE Join(_)
Join(text) == IF text = <<>> THEN "" ELSE Head(text) \o Join(Tail(text))

(***************************************************************************)
(* CacheService: the tool:schema: namespace.                               *)
(***************************************************************************)
\* JSON.stringify of a parameter object (keys in insertion order; the objects
\* here have one key at most).
RECURSIVE StringifyFields(_, _)
StringifyFields(o, keys) ==
    IF keys = {} THEN ""
    ELSE LET k == CHOOSE x \in keys : TRUE
             rest == StringifyFields(o, keys \ {k})
         IN  "\"" \o k \o "\":" \o ToString(o[k])
                  \o (IF rest = "" THEN "" ELSE "," \o rest)
JsonStringify(o) == "{" \o StringifyFields(o, DOMAIN o) \o "}"

\* `tool_result:${toolName}:${JSON.stringify(parameters)}`
ResultCacheKey(toolName, parameters) ==
    [kind |-> "tool_result", tool |-> toolName, params |-> JsonStringify(parameters)]
PlainToolKey(toolName) == [kind |-> "tool", tool |-> toolName, params |-> ""]

\* A store of keys with a time-to-live: a function from the keys that are set
\* to [val, ttl]; a key whose time-to-live is used up is no longer there.
NoEntry == [val |-> Undefined, ttl |-> 0]
EmptyStore == [k \in {} |-> NoEntry]
StoreSet(store, key, entry) ==
    [k \in DOMAIN store \cup {key} |-> IF k = key THEN entry ELSE store[k]]
StoreDel(store, keys) == [k \in DOMAIN store \ keys |-> store[k]]
StoreAge(store, d) ==
    [k \in {x \in DOMAIN store : store[x].ttl > d} |->
        [store[k] EXCEPT !.ttl = @ - d]]

\* `${REDIS_KEYS.TOOL_SCHEMA}${server}:${toolName}`
ToolSchemaKey(toolName, server) == <<TemplateString(server), toolName>>

\* setToolSchema(toolName, server, schema): the value is JSON.stringify(schema)
\* and the time-to-live is always CACHE_TTL.TOOL_SCHEMA.
SetToolSchema(cache, toolName, server, schema) ==
    StoreSet(cache, ToolSchemaKey(toolName, server),
             [val |-> schema, ttl |-> TTL_TOOL_SCHEMA])

\* getToolSchema(toolName, server): data ? JSON.parse(data) : null
GetToolSchema(cache, toolName, server) ==
    LET key == ToolSchemaKey(toolName, server)
    IN  IF key \in DOMAIN cache THEN cache[key].val ELSE Undefined

(***************************************************************************)
(* DynamicExecution.                                                       *)
(***************************************************************************)
NoData == [executionId |-> 0, status |-> "none", result |-> Undefined]
NoRecord == [data |-> NoData, ttl |-> 0]
NoReturn == [executionId |-> 0, status |-> "none", result |-> Undefined,
             error |-> ""]
NoSuccess == [live |-> FALSE, result |-> Undefined, ttl |-> 0]
IdleCall == [pc |-> "idle", executionId |-> 0, tool |-> "", params |-> EmptyObject,
             server |-> "", response |-> Undefined, contacted |-> FALSE,
             answered |-> FALSE,
             expected |-> [live |-> FALSE, result |-> Undefined, ttl |-> 0],
             ret |-> NoReturn]

\* redis.setex(`execution:${id}:${state}`, 3600, JSON.stringify(data))
Setex(store, id, state, data) ==
    [store EXCEPT ![<<id, state>>] = [data |-> data, ttl |-> EXECUTION_TTL]]

\* executeTool up to the answer of the result cache: a hit returns at once,
\* a miss sends the invocation to the tool server.
ExecuteToolStart(c, toolName, parameters, server) ==
    /\ calls[c].pc \in {"idle", "returned"}
    /\ nextExecId <= MaxExecutions
    /\ LET executionId == nextExecId
           cacheKey == ResultCacheKey(toolName, parameters)
           cachedResult == GetToolSchema(toolSchemaCache, cacheKey, Undefined)
           call == [IdleCall EXCEPT !.executionId = executionId,
                                    !.tool = toolName,
                                    !.params = parameters,
                                    !.server = server,
                                    !.expected =
                                        IF <<toolName, parameters>> \in DOMAIN lastSuccess
                                          THEN lastSuccess[<<toolName, parameters>>]
                                          ELSE NoSuccess]
       IN  /\ nextExecId' = nextExecId + 1
           /\ IF Truthy(cachedResult)
                 THEN calls' = [calls EXCEPT ![c] =
                            [call EXCEPT !.pc = "returned",
                                         !.ret = [executionId |-> executionId,
                                                  status |-> "completed",
                                                  result |-> cachedResult,
                                                  error |-> ""]]]
                 ELSE calls' = [calls EXCEPT ![c] =
                            [call EXCEPT !.pc = "fetching", !.contacted = TRUE]]
    /\ UNCHANGED <<toolSchemaCache, execStore, lastSuccess, observed>>

\* A tracker that kept the failures would store a record for them.
ExecuteToolFail_Recorded(c, error) ==
    /\ calls[c].pc = "fetching"
    /\ calls' = [calls EXCEPT ![c].pc = "returned",
                              ![c].ret = [executionId |-> calls[c].executionId,
                                          status |-> "failed",
                                          result |-> Undefined,
                                          error |-> error]]
    /\ execStore' = Setex(execStore, calls[c].executionId, "completed",
                          [executionId |-> calls[c].executionId, status |-> "failed",
                           result |-> Undefined])
    /\ UNCHANGED <<toolSchemaCache, nextExecId, lastSuccess, observed>>

\* The tool server does not answer with success: !response.ok, an explicit
\* success:false payload, or a thrown network error.  Nothing is stored.
ExecuteToolFail(c, error) ==
    /\ calls[c].pc = "fetching"
    /\ calls' = [calls EXCEPT ![c].pc = "returned",
                              ![c].ret = [executionId |-> calls[c].executionId,
                                          status |-> "failed",
                                          result |-> Undefined,
                                          error |-> error]]
    /\ UNCHANGED <<toolSchemaCache, execStore, nextExecId, lastSuccess, observed>>

\* The tool server answers success with result.result = r: the result is
\* handed to setToolSchema(cacheKey, result.result, 3600).
ExecuteToolRespond(c, r) ==
    /\ calls[c].pc = "fetching"
    /\ LET cacheKey == ResultCacheKey(calls[c].tool, calls[c].params)
       IN  toolSchemaCache' = SetToolSchema(toolSchemaCache, cacheKey, r, Num("3600"))
    /\ calls' = [calls EXCEPT ![c].pc = "persisting", ![c].response = r,
                              ![c].answered = TRUE]
    /\ UNCHANGED <<execStore, nextExecId, lastSuccess, observed>>

\* The tool server answers success with result.result = r and
\* setToolSchema(cacheKey, result.result, 3600) throws error: the catch of
\* executeTool returns a failure with the message of the error.
ExecuteToolCacheThrows(c, r, error) ==
    /\ calls[c].pc = "fetching"
    /\ calls' = [calls EXCEPT ![c].pc = "returned",
                              ![c].response = r,
                              ![c].answered = TRUE,
                              ![c].ret = [executionId |-> calls[c].executionId,
                                          status |-> "failed",
                                          result |-> Undefined,
                                          error |-> error]]
    /\ UNCHANGED <<toolSchemaCache, execStore, nextExecId, lastSuccess, observed>>

\* The result is cached and redis.setex of the completed record throws error:
\* the catch of executeTool returns a failure with the message of the error.
ExecuteToolSetexThrows(c, error) ==
    /\ calls[c].pc = "persisting"
    /\ calls' = [calls EXCEPT ![c].pc = "returned",
                              ![c].ret = [executionId |-> calls[c].executionId,
                                          status |-> "failed",
                                          result |-> Undefined,
                                          error |-> error]]
    /\ lastSuccess' = StoreSet(lastSuccess, <<calls[c].tool, calls[c].params>>,
                               [live |-> TRUE, result |-> calls[c].response,
                                ttl |-> TTL_TOOL_SCHEMA])
    /\ UNCHANGED <<toolSchemaCache, execStore, nextExecId, observed>>

\* The completed record is stored and successData returned.
ExecuteToolPersist(c) ==
    /\ calls[c].pc = "persisting"
    /\ LET successData == [executionId |-> calls[c].executionId,
                           status |-> "completed",
                           result |-> calls[c].response]
       IN  /\ execStore' = Setex(execStore, calls[c].executionId, "completed",
                                 successData)
           /\ calls' = [calls EXCEPT ![c].pc = "returned",
                                     ![c].ret = [executionId |-> successData.executionId,
                                                 status |-> "completed",
                                                 result |-> successData.result,
                                                 error |-> ""]]
           /\ lastSuccess' = StoreSet(lastSuccess, <<calls[c].tool, calls[c].params>>,
                                      [live |-> TRUE, result |-> successData.result,
                                       ttl |-> TTL_TOOL_SCHEMA])
    /\ UNCHANGED <<toolSchemaCache, nextExecId, observed>>

\* cancelExecution(executionId)
CancelExecution(executionId) ==
    /\ executionId < nextExecId
    /\ execStore' = Setex(execStore, executionId, "cancelled",
                          [executionId |-> executionId, status |-> "cancelled",
                           result |-> Undefined])
    /\ UNCHANGED <<toolSchemaCache, nextExecId, calls, lastSuccess, observed>>

\* The loop of getExecutionStatus over states[i..]: the first record found.
RECURSIVE StatusFrom(_, _, _)
StatusFrom(store, executionId, i) ==
    IF i > Len(ExecStates)
      THEN [status |-> "not_found", result |-> Undefined, executionId |-> executionId]
      ELSE LET e == store[<<executionId, ExecStates[i]>>]
           IN  IF e.ttl > 0
                 THEN [status |-> e.data.status, result |-> e.data.result,
                       executionId |-> e.data.executionId]
                 ELSE StatusFrom(store, executionId, i + 1)

ExecutionStatus(store, executionId) == StatusFrom(store, executionId, 1)

\* getExecutionStatus(executionId).  The answer is kept in observed, with the
\* last completed or cancelled answer given before it for the same id and
\* whether a cancelled record was stored for the id when it was given.
GetExecutionStatus(executionId) ==
    /\ executionId < nextExecId
    /\ LET answer == ExecutionStatus(execStore, executionId)
           before == IF observed.executionId # executionId THEN "none"
                     ELSE IF observed.cur \in {"completed", "cancelled"}
                            THEN observed.cur ELSE observed.prev
       IN  observed' = [executionId |-> executionId,
                        prev |-> before,
                        cur |-> answer.status,
                        cancelled |-> execStore[<<executionId, "cancelled">>].ttl > 0]
    /\ UNCHANGED <<toolSchemaCache, execStore, nextExecId, calls, lastSuccess>>

(***************************************************************************)
(* CacheService: the tool:discovery: namespace and clearServerCache.       *)
(***************************************************************************)
NoDiscovery == [tools |-> <<>>, ttl |-> 0]

\* setToolDiscovery(server, tools)
SetToolDiscovery(cache, server, tools) ==
    [cache EXCEPT ![server] = [tools |-> tools, ttl |-> TTL_TOOL_DISCOVERY]]

\* getToolDiscovery(server): the cached list, or null (here: no list pushed).
HasToolDiscovery(cache, server) == cache[server].ttl > 0
GetToolDiscovery(cache, server) == cache[server].tools

\* clearServerCache(server) on the tool:schema: keys: every key matching
\* tool:schema:<server>:* is deleted.
ClearServerSchemas(cache, server) ==
    StoreDel(cache, {k \in DOMAIN cache : k[1] = server})

\* clearServerCache(server) on the tool:discovery: key.
ClearServerDiscovery(cache, server) == [cache EXCEPT ![server] = NoDiscovery]

(***************************************************************************)
(* DynamicDiscovery.                                                       *)
(***************************************************************************)
NoErrors == [count |-> 0, timeSinceLastError |-> circuitBreakerTimeout]

\* A breaker that never closes again would look at the count alone.
IsServerBlocked_NoTimeout(r, server) ==
    serverErrorCounts[r][server].count >= maxRetries

\* isServerBlocked(server)
IsServerBlocked(r, server) ==
    LET errorInfo == serverErrorCounts[r][server]
    IN  /\ errorInfo.count >= maxRetries
        /\ errorInfo.timeSinceLastError < circuitBreakerTimeout

\* A breaker that forgot the failures behind it once its window is over would
\* start counting from one again.
RecordServerError_Restarting(current) ==
    [count |-> IF current.timeSinceLastError >= circuitBreakerTimeout
                 THEN 1 ELSE current.count + 1,
     timeSinceLastError |-> 0]

\* recordServerError(server)
RecordServerError(current) ==
    [count |-> current.count + 1, timeSinceLastError |-> 0]

\* A registry without the cooldown would attempt a discovery at every call.
ShouldAttemptDiscovery_Always(r) == TRUE
\* shouldAttemptDiscovery()
ShouldAttemptDiscovery(r) == timeSinceLastAttempt[r] > discoveryCooldown

\* normalizeToolData(tools, server)
NormalizeToolData(tools, server) ==
    [i \in 1..Len(tools) |->
        [name |-> tools[i].name, schema |-> tools[i].schema, server |-> server]]

\* The loops "for (const server of env.MCP_SERVERS)" that push the cached
\* list of every server from index i on that passes the filter skip.
RECURSIVE CachedFrom(_, _, _)
CachedFrom(cache, skip, i) ==
    IF i > Len(MCP_SERVERS) THEN <<>>
    ELSE LET server == MCP_SERVERS[i]
         IN  (IF server \notin skip /\ HasToolDiscovery(cache, server)
                THEN GetToolDiscovery(cache, server) ELSE <<>>)
             \o CachedFrom(cache, skip, i + 1)

\* getCachedTools()
GetCachedTools(cache) == CachedFrom(cache, {}, 1)

Blocked(r) == {server \in Servers : IsServerBlocked(r, server)}

\* fetchToolsFromMCPServer(): the servers it contacts, those that answer
\* with success and a tool list, and the list it collects.
\* A fetch that forgets the circuit breaker would contact every server.
FetchContacted_IgnoringBreaker(r) == Servers
FetchContacted(r) == Servers \ Blocked(r)
\* A fetch that gives up at the first server that fails would keep no tool.
FetchSucceeded_AllOrNothing(r, resp) ==
    IF \E server \in FetchContacted(r) : resp[server] # "ok" THEN {}
    ELSE FetchContacted(r)
FetchSucceeded(r, resp) == {server \in FetchContacted(r) : resp[server] = "ok"}

RECURSIVE FetchedFrom(_, _)
FetchedFrom(succeeded, i) ==
    IF i > Len(MCP_SERVERS) THEN <<>>
    ELSE LET server == MCP_SERVERS[i]
         IN  (IF server \in succeeded
                THEN NormalizeToolData(serverTools[server], server) ELSE <<>>)
             \o FetchedFrom(succeeded, i + 1)

\* A fetch that forgets setToolDiscovery would leave the cache as it was.
FetchCache_NotStored(r, resp) == toolDiscoveryCache
FetchCache(r, resp) ==
    [server \in Servers |->
        IF server \in FetchSucceeded(r, resp)
          THEN [tools |-> NormalizeToolData(serverTools[server], server),
                ttl |-> TTL_TOOL_DISCOVERY]
          ELSE toolDiscoveryCache[server]]

FetchErrorCounts(r, resp) ==
    [server \in Servers |->
        IF server \in FetchSucceeded(r, resp) THEN NoErrors
        ELSE IF server \in FetchContacted(r)
               THEN RecordServerError(serverErrorCounts[r][server])
               ELSE serverErrorCounts[r][server]]

\* fetchToolsFromMCPServer() throws when no server succeeded or no tool came.
FetchThrows(r, resp) ==
    \/ FetchSucceeded(r, resp) = {}
    \/ FetchedFrom(FetchSucceeded(r, resp), 1) = <<>>

\* getAllTools() of registry r, the servers answering a fetch as resp says.
\* path: how the call ended; fetched: the servers it contacted.
GetAllToolsOutcome(r, resp) ==
    IF ~ShouldAttemptDiscovery(r)
      THEN [path |-> "cooldown", tools |-> GetCachedTools(toolDiscoveryCache),
            fetched |-> {}, cache |-> toolDiscoveryCache,
            errors |-> serverErrorCounts[r], attempted |-> FALSE]
    ELSE IF CachedFrom(toolDiscoveryCache, Blocked(r), 1) # <<>>
      THEN [path |-> "cached", tools |-> CachedFrom(toolDiscoveryCache, Blocked(r), 1),
            fetched |-> {}, cache |-> toolDiscoveryCache,
            errors |-> serverErrorCounts[r], attempted |-> TRUE]
    ELSE IF FetchThrows(r, resp)
      THEN [path |-> "fallback", tools |-> GetCachedTools(FetchCache(r, resp)),
            fetched |-> FetchContacted(r), cache |-> FetchCache(r, resp),
            errors |-> FetchErrorCounts(r, resp), attempted |-> TRUE]
    ELSE [path |-> "fetched", tools |-> FetchedFrom(FetchSucceeded(r, resp), 1),
          fetched |-> FetchContacted(r), cache |-> FetchCache(r, resp),
          errors |-> FetchErrorCounts(r, resp), attempted |-> TRUE]

NoOp == [kind |-> "none", registry |-> "", path |-> "", tools |-> <<>>,
         fetched |-> {}, blocked |-> {}, succeeded |-> {}, offered |-> {},
         hadCache |-> FALSE, reachable |-> {},
         afterRefresh |-> FALSE, tool |-> "", server |-> "", schema |-> "",
         repeated |-> FALSE, previousTools |-> <<>>]
\* The last answer of getAllTools(), kept for one discovery time-to-live.
NoGet == [valid |-> FALSE, registry |-> "", tools |-> <<>>, ttl |-> 0]
Refreshed(op) == op.kind = "refreshToolSchema" /\ op.path = "refreshed"

\* The descriptors of the tools that servers list at the moment.
Offered(servers) ==
    UNION {{NormalizeToolData(serverTools[server], server)[i] :
                i \in 1..Len(serverTools[server])} : server \in servers}

\* What the fetches of getAllTools() came to for a server: the failed ones
\* since the last one that succeeded, and the time since the last failed one.
NoFailures == [failures |-> 0, sinceFailure |-> circuitBreakerTimeout]
FetchLogged(log, fetched, resp) ==
    [server \in Servers |->
        IF server \notin fetched THEN log[server]
        ELSE IF resp[server] = "ok" THEN NoFailures
        ELSE [failures |-> log[server].failures + 1, sinceFailure |-> 0]]

GetAllTools(r, resp) ==
    LET out == GetAllToolsOutcome(r, resp)
    IN  /\ \A server \in out.fetched :
             resp[server] # "ok" => serverErrorCounts[r][server].count < MaxErrorCount
        /\ timeSinceLastAttempt' =
             IF out.attempted THEN [timeSinceLastAttempt EXCEPT ![r] = 0]
             ELSE timeSinceLastAttempt
        /\ toolDiscoveryCache' = out.cache
        /\ serverErrorCounts' = [serverErrorCounts EXCEPT ![r] = out.errors]
        /\ lastOp' = [NoOp EXCEPT !.kind = "getAllTools", !.registry = r,
                                  !.path = out.path, !.tools = out.tools,
                                  !.fetched = out.fetched, !.blocked = Blocked(r),
                                  !.succeeded =
                                      {server \in out.fetched : resp[server] = "ok"},
                                  !.offered =
                                      Offered({server \in out.fetched : resp[server] = "ok"}),
                                  !.hadCache = GetCachedTools(toolDiscoveryCache) # <<>>,
                                  !.afterRefresh = Refreshed(lastOp),
                                  !.tool = IF Refreshed(lastOp) THEN lastOp.tool ELSE "",
                                  !.server = IF Refreshed(lastOp) THEN lastOp.server ELSE "",
                                  !.schema = IF Refreshed(lastOp) THEN lastOp.schema ELSE "",
                                  !.repeated = lastGet.valid /\ lastGet.registry = r,
                                  !.previousTools =
                                      IF lastGet.valid /\ lastGet.registry = r
                                        THEN lastGet.tools ELSE <<>>]
        /\ lastGet' = [valid |-> TRUE, registry |-> r, tools |-> out.tools,
                     ttl |-> TTL_TOOL_DISCOVERY]
        /\ fetchLog' = [fetchLog EXCEPT ![r] = FetchLogged(@, out.fetched, resp)]
        /\ UNCHANGED <<toolSchemaCache, serverTools>>

\* clearCache(): clearServerCache(server) for every configured server.
ClearCache(cache) == [server \in Servers |-> NoDiscovery]
ClearSchemas(cache) == StoreDel(cache, {k \in DOMAIN cache : k[1] \in Servers})

\* The getAllTools() that refreshCache() calls on the cleared cache: within
\* the cooldown it returns the cached tools, of which there are none; past
\* it no list is cached and it fetches.
GetAllToolsCleared(r, resp) ==
    IF ~ShouldAttemptDiscovery(r)
      THEN [path |-> "cooldown", tools |-> <<>>, fetched |-> {}, succeeded |-> {},
            errors |-> serverErrorCounts[r], attempted |-> FALSE]
    ELSE [path |-> IF FetchThrows(r, resp) THEN "fallback" ELSE "fetched",
          tools |-> FetchedFrom(FetchSucceeded(r, resp), 1),
          fetched |-> FetchContacted(r), succeeded |-> FetchSucceeded(r, resp),
          errors |-> FetchErrorCounts(r, resp), attempted |-> TRUE]

\* refreshCache() of registry r, the servers answering a fetch as resp says.
RefreshCache(r, resp) ==
    /\ \A server \in FetchContacted(r) :
          resp[server] # "ok" => serverErrorCounts[r][server].count < MaxErrorCount
    /\ \E out \in {GetAllToolsCleared(r, resp)} :
          /\ toolSchemaCache' = ClearSchemas(toolSchemaCache)
          /\ toolDiscoveryCache' =
               [server \in Servers |->
                   IF server \in out.succeeded
                     THEN [tools |-> NormalizeToolData(serverTools[server], server),
                           ttl |-> TTL_TOOL_DISCOVERY]
                     ELSE ClearCache(toolDiscoveryCache)[server]]
          /\ timeSinceLastAttempt' =
               IF out.attempted THEN [timeSinceLastAttempt EXCEPT ![r] = 0]
               ELSE timeSinceLastAttempt
          /\ serverErrorCounts' = [serverErrorCounts EXCEPT ![r] = out.errors]
          /\ lastOp' = [NoOp EXCEPT !.kind = "refreshCache", !.registry = r,
                                    !.path = out.path, !.tools = out.tools,
                                    !.fetched = out.fetched, !.blocked = Blocked(r),
                                    !.succeeded = out.succeeded,
                                    !.reachable =
                                        {server \in Servers : resp[server] = "ok"},
                                    !.hadCache =
                                        GetCachedTools(toolDiscoveryCache) # <<>>]
          /\ lastGet' = NoGet
          /\ fetchLog' = [fetchLog EXCEPT ![r] = FetchLogged(@, out.fetched, resp)]
    /\ UNCHANGED serverTools

\* refreshToolSchema(toolName, server), the server answering the fetch as
\* outcome says.  A thrown fetch is rethrown, after the cache was cleared.
RefreshToolSchema(toolName, server, outcome) ==
    LET cleared == ClearServerSchemas(toolSchemaCache, server)
        listed == {i \in 1..Len(serverTools[server]) :
                       serverTools[server][i].name = toolName}
        found == outcome = "ok" /\ listed # {}
        tool == serverTools[server][CHOOSE i \in listed : \A j \in listed : i <= j]
        normalizedTool == NormalizeToolData(<<tool>>, server)[1]
    IN  /\ toolDiscoveryCache' = ClearServerDiscovery(toolDiscoveryCache, server)
        /\ toolSchemaCache' =
             IF found
               THEN SetToolSchema(cleared, PlainToolKey(toolName), Str(server),
                                  Obj(normalizedTool.schema))
               ELSE cleared
        /\ lastOp' = [NoOp EXCEPT !.kind = "refreshToolSchema",
                                  !.path = IF found THEN "refreshed" ELSE outcome,
                                  !.tool = toolName, !.server = server,
                                  !.schema = IF found THEN normalizedTool.schema ELSE ""]
        /\ lastGet' = NoGet
        /\ UNCHANGED <<serverErrorCounts, timeSinceLastAttempt, serverTools, fetchLog>>

\* validateToolSchema(tool): the checks of required against properties.
RequiredInProperties(properties, required) ==
    IF Truthy(required) /\ Truthy(properties)
      THEN \A i \in 1..Len(required.v) : Truthy(Get(properties, required.v[i]))
      ELSE TRUE

\* validateToolSchema(tool): the checks made when tool.schema.inputSchema is
\* truthy.
ValidInputSchema(inputSchema, properties, required) ==
    IF ~TypeofObject(inputSchema) \/ inputSchema.t = "null" THEN FALSE
    ELSE IF Truthy(properties) /\ ~TypeofObject(properties) THEN FALSE
    ELSE IF Truthy(required) /\ required.t # "array" THEN FALSE
    ELSE RequiredInProperties(properties, required)

\* validateToolSchema(tool): the try block, for a tool whose properties can
\* be read.
ValidSchemaOf(tool, inputSchema) ==
    IF ~Truthy(Get(tool, "name")) \/ ~Truthy(Get(tool, "description")) THEN FALSE
    ELSE IF ~Truthy(Get(tool, "schema")) THEN FALSE
    ELSE IF ~Truthy(inputSchema) THEN TRUE
    ELSE ValidInputSchema(inputSchema, Get(inputSchema, "properties"),
                          Get(inputSchema, "required"))

\* validateToolSchema(tool).  Reading tool.name of null or undefined throws
\* a TypeError: in the try block, which is caught, and again in the message
\* that the catch block logs, which is not.
ValidateToolSchema(tool) ==
    IF tool.t \in {"null", "undefined"}
      THEN [threw |-> TRUE, value |-> FALSE]
      ELSE [threw |-> FALSE,
            value |-> ValidSchemaOf(tool, Get(Get(tool, "schema"), "inputSchema"))]

\* The tool server changes the tools it lists (a new schema, no tool at all).
ServerChanges(server, tools) ==
    /\ serverTools[server] # tools
    /\ serverTools' = [serverTools EXCEPT ![server] = tools]
    /\ UNCHANGED <<toolSchemaCache, serverErrorCounts, timeSinceLastAttempt,
                   toolDiscoveryCache, lastOp, lastGet, fetchLog>>

(***************************************************************************)
(* CacheService: the llm:analysis: namespace.                              *)
(***************************************************************************)
\* setLLMAnalysis(cacheKey, analysis)
SetLLMAnalysis(cache, cacheKey, analysis) ==
    StoreSet(cache, cacheKey, [val |-> analysis, ttl |-> TTL_LLM_ANALYSIS])

\* getLLMAnalysis(cacheKey): data ? JSON.parse(data) : null
HasLLMAnalysis(cache, cacheKey) == cacheKey \in DOMAIN cache
GetLLMAnalysis(cache, cacheKey) == cache[cacheKey].val

(***************************************************************************)
(* LLMFormatting.  The answer of the language model is an input: the call  *)
(* fails, or it returns a text.                                            *)
(***************************************************************************)
LlmFails == [ok |-> FALSE, text |-> <<>>]
LlmSays(text) == [ok |-> TRUE, text |-> text]

SelectedToolMarker ==
    <<"S", "E", "L", "E", "C", "T", "E", "D", " ", "T", "O", "O", "L", ":">>
ReasoningMarker ==
    <<"R", "E", "A", "S", "O", "N", "I", "N", "G", ":">>
ReasoningAhead ==
    <<"\n", "R", "E", "A", "S", "O", "N", "I", "N", "G", ":">>
UserExplanationMarker ==
    <<"U", "S", "E", "R", " ", "E", "X", "P", "L", "A", "N", "A", "T", "I",
      "O", "N", ":">>
SafetyAnalysisMarker ==
    <<"S", "A", "F", "E", "T", "Y", " ", "A", "N", "A", "L", "Y", "S", "I",
      "S", ":">>
SafetyAnalysisAhead ==
    <<"\n", "S", "A", "F", "E", "T", "Y", " ", "A", "N", "A", "L", "Y",
      "S", "I", "S", ":">>
DefaultSafetyAnalysis ==
    <<"U", "n", "a", "b", "l", "e", " ", "t", "o", " ", "a", "s", "s", "e",
      "s", "s", " ", "s", "a", "f", "e", "t", "y">>
DefaultReasoning ==
    <<"U", "n", "a", "b", "l", "e", " ", "t", "o", " ", "d", "e", "t", "e",
      "r", "m", "i", "n", "e", " ", "r", "e", "a", "s", "o", "n", "i", "n",
      "g">>
DefaultUserExplanation ==
    <<"U", "n", "a", "b", "l", "e", " ", "t", "o", " ", "a", "n", "a", "l",
      "y", "z", "e", " ", "t", "o", "o", "l", " ", "o", "u", "t", "c", "o",
      "m", "e">>

\* The group ([\s\S]*?)(?=<ahead>|$) of the patterns below, matched against
\* what follows the marker and the white space behind it: the text up to
\* the first <ahead> or the end, trimmed.  An empty ahead stands for the
\* pattern that ends with $ alone.
FieldEnds(rest, ahead) ==
    {e \in 1..Len(rest) : ahead # <<>> /\ OccursAt(rest, ahead, e)}
FieldUpTo(rest, ends) ==
    Trim(SubSeq(rest, 1, IF ends = {} THEN Len(rest) ELSE First(ends) - 1))
FieldOf(rest, ahead) == FieldUpTo(rest, FieldEnds(rest, ahead))
FieldAt(text, marker, ahead, at) ==
    IF at = {} THEN <<>>
    ELSE FieldOf(TrimStart(SubSeq(text, First(at) + Len(marker), Len(text))), ahead)

\* text.match(/<marker>\s*([\s\S]*?)(?=<ahead>|$)/)?.[1]?.trim() : the group
\* of the first match, trimmed; nothing when the marker is not there.
MatchField(text, marker, ahead) ==
    FieldAt(text, marker, ahead, {i \in 1..Len(text) : OccursAt(text, marker, i)})

\* generateCacheKey(operation, ...args)
GenerateCacheKey(operation, args) == operation \o ":" \o args

\* JSON.stringify of the tools, as far as their names tell them apart.
RECURSIVE ToolsString(_)
ToolsString(tools) ==
    IF tools = <<>> THEN ""
    ELSE Head(tools).name \o "@" \o Head(tools).server \o "#" \o Head(tools).schema
           \o ";" \o ToolsString(Tail(tools))

\* What every method does around its call of the model: the cached response
\* if there is one; else the call, which throws when the model fails; else
\* setCachedLLMResponse(cacheKey, result) and the result.
\* threw: the call raised; value: what it returned; cache: the cache after it.
CachedLLMCall(cache, cacheKey, ok, result, nothing) ==
    IF HasLLMAnalysis(cache, cacheKey)
      THEN [threw |-> FALSE, value |-> GetLLMAnalysis(cache, cacheKey), cache |-> cache]
    ELSE IF ~ok
      THEN [threw |-> TRUE, value |-> nothing, cache |-> cache]
    ELSE [threw |-> FALSE, value |-> result,
          cache |-> SetLLMAnalysis(cache, cacheKey, result)]

\* selectedToolMatch?.[1]?.trim() || null
SelectedTool(match) == IF match # <<>> THEN Str(Join(match)) ELSE Null

\* selectTool: the result parsed from the answer of the model.
SelectToolResult(selection) ==
    [selectedTool |-> SelectedTool(MatchField(selection, SelectedToolMarker,
                                              ReasoningAhead)),
     reasoning |-> Join(OrElse(MatchField(selection, ReasoningMarker, <<>>),
                               DefaultReasoning))]

\* selectTool(userRequest, availableTools), the model answering as llm says.
SelectTool(cache, userRequest, availableTools, llm) ==
    CachedLLMCall(cache,
        GenerateCacheKey("select_tool",
            Join(userRequest) \o ":" \o ToolsString(availableTools)),
        llm.ok, SelectToolResult(llm.text),
        [selectedTool |-> Null, reasoning |-> ""])

\* analyzeToolOutcome: the result parsed from the answer of the model.
AnalyzeToolOutcomeResult(analysis) ==
    [userExplanation |-> Join(OrElse(MatchField(analysis, UserExplanationMarker,
                                                SafetyAnalysisAhead),
                                     DefaultUserExplanation)),
     safetyAnalysis |-> OrElse(MatchField(analysis, SafetyAnalysisMarker, <<>>),
                               DefaultSafetyAnalysis)]

\* analyzeToolOutcome(toolName, parameters), the model answering as llm says.
AnalyzeToolOutcome(cache, toolName, parameters, llm) ==
    CachedLLMCall(cache,
        GenerateCacheKey("analyze_tool_outcome",
            toolName \o ":" \o JsonStringify(parameters)),
        llm.ok, AnalyzeToolOutcomeResult(llm.text),
        [userExplanation |-> "", safetyAnalysis |-> <<>>])

\* analyzeModifications(userFeedback, originalTool, originalParameters): the
\* answer of the model is taken as the changes object its CHANGES: part parses to.
AnalyzeModifications(cache, userFeedback, originalTool, originalParameters, llm) ==
    CachedLLMCall(cache,
        GenerateCacheKey("analyze_modifications",
            userFeedback \o ":" \o originalTool \o ":"
                \o JsonStringify(originalParameters)),
        llm.ok,
        [changes |-> llm.changes, reasoning |-> "Unable to analyze modifications"],
        [changes |-> EmptyObject, reasoning |-> ""])

\* JSON.stringify of a value (undefined comes out as the word undefined when
\* the key is joined).
JsonValue(x) == IF x.t \in {"undefined", "null"} THEN x.t ELSE x.v

\* formatResponseWithLLM(rawResponse, {originalUserRequest, toolUsed})
FormatResponseWithLLM(cache, rawResponse, originalUserRequest, toolUsed, llm) ==
    CachedLLMCall(cache,
        GenerateCacheKey("format_response",
            JsonValue(rawResponse) \o ":" \o Join(originalUserRequest)
                \o ":" \o toolUsed),
        llm # "fails", "formatted " \o JsonValue(rawResponse), "")

(***************************************************************************)
(* Consent.                                                                *)
(***************************************************************************)
UnknownRequest ==
    <<"u", "n", "k", "n", "o", "w", "n">>

\* handleModificationRequest(userFeedback)
HandleModificationRequest(userFeedback) ==
    [originalTool |-> "unknown", originalParameters |-> EmptyObject,
     userFeedback |-> userFeedback, originalRequest |-> UnknownRequest]

\* handleRejection(reason)
HandleRejection(reason) ==
    "The action was cancelled. Let me know if there's anything else I can help you with!"

(***************************************************************************)
(* DynamicFlow: its helper methods.                                        *)
(***************************************************************************)
stopCommands ==
    << <<"s", "t", "o", "p">>, <<"c", "a", "n", "c", "e", "l">>,
       <<"q", "u", "i", "t">>, <<"e", "x", "i", "t">> >>

\* A check of the stop commands that forgets toLowerCase.
IsStopCommand_CaseSensitive(userRequest) ==
    \E i \in 1..Len(stopCommands) : Includes(userRequest, stopCommands[i])
\* isStopCommand(userRequest)
IsStopCommand(userRequest) ==
    \E i \in 1..Len(stopCommands) :
        Includes(ToLowerCase(userRequest), stopCommands[i])

FallbackSafetyAnalysis ==
    <<"U", "n", "a", "b", "l", "e", " ", "t", "o", " ", "a", "n", "a", "l",
      "y", "z", "e", " ", "s", "a", "f", "e", "t", "y", " ", "-", " ", "b",
      "l", "o", "c", "k", "i", "n", "g", " ", "o", "p", "e", "r", "a", "t",
      "i", "o", "n">>

\* A getOrCreate method that returned the fallback without storing it would
\* ask the model again at the next call.
GetOrCreate_FallbackNotStored(cache, cacheKey, step, fallback) ==
    IF HasLLMAnalysis(cache, cacheKey)
      THEN [value |-> GetLLMAnalysis(cache, cacheKey), cache |-> cache,
            llmFailed |-> FALSE]
    ELSE IF step.threw
      THEN [value |-> fallback, cache |-> step.cache, llmFailed |-> TRUE]
    ELSE [value |-> step.value,
          cache |-> SetLLMAnalysis(step.cache, cacheKey, step.value),
          llmFailed |-> FALSE]

\* What the getOrCreate methods do around their step: the cached value if
\* there is one; else the step, and its result cached; the fallback, cached
\* as well, when the step throws.  llmFailed: the step threw.
GetOrCreate(cache, cacheKey, step, fallback) ==
    IF HasLLMAnalysis(cache, cacheKey)
      THEN [value |-> GetLLMAnalysis(cache, cacheKey), cache |-> cache,
            llmFailed |-> FALSE]
    ELSE IF step.threw
      THEN [value |-> fallback,
            cache |-> SetLLMAnalysis(step.cache, cacheKey, fallback),
            llmFailed |-> TRUE]
    ELSE [value |-> step.value,
          cache |-> SetLLMAnalysis(step.cache, cacheKey, step.value),
          llmFailed |-> FALSE]

\* getOrCreateToolAnalysis(toolName, parameters)
GetOrCreateToolAnalysis(cache, toolName, parameters, llm) ==
    GetOrCreate(cache, toolName \o ":" \o JsonStringify(parameters),
        AnalyzeToolOutcome(cache, toolName, parameters, llm),
        [userExplanation |-> "Expected to execute " \o toolName
                                 \o " with provided parameters",
         safetyAnalysis |-> FallbackSafetyAnalysis])

\* availableTools.map(t => ({name: t.name, description: t.description}))
RECURSIVE ToolsHash(_)
ToolsHash(tools) ==
    IF tools = <<>> THEN ""
    ELSE Head(tools).name \o ";" \o ToolsHash(Tail(tools))

\* { tool: selection.selectedTool, reasoning: selection.reasoning }
ToolSelectionResult(selection) ==
    [selection EXCEPT !.value = [tool |-> selection.value.selectedTool,
                                 reasoning |-> selection.value.reasoning]]

\* getOrCreateToolSelection(userRequest, availableTools)
GetOrCreateToolSelection(cache, userRequest, availableTools, llm) ==
    GetOrCreate(cache,
        "tool_selection:" \o Join(userRequest) \o ":" \o ToolsHash(availableTools),
        ToolSelectionResult(SelectTool(cache, userRequest, availableTools, llm)),
        [tool |-> Null, reasoning |-> "Failed to select tool"])

\* The first tool of that name in what getAllTools() returned.
SchemaFound(toolName, allTools, found) ==
    IF found = {}
      THEN [threw |-> TRUE, error |-> "Tool " \o toolName \o " not found",
            schema |-> ""]
      ELSE [threw |-> FALSE, error |-> "", schema |-> allTools[First(found)].schema]

\* getOrCreateSchema(toolName), allTools being what getAllTools() returned.
GetOrCreateSchema(toolName, allTools) ==
    SchemaFound(toolName, allTools,
                {i \in 1..Len(allTools) : allTools[i].name = toolName})

ParameterExtractionKey(toolName, userRequest, toolReasoning) ==
    "parameter_extraction:" \o toolName \o ":" \o Join(userRequest) \o ":"
        \o toolReasoning

\* getOrCreateParameterExtraction past the cache and getOrCreateSchema, whose
\* outcome is toolSchema: the extraction, or the fallback when it fails.
ParameterExtraction(cache, cacheKey, toolSchema, extraction, fallback) ==
    IF toolSchema.threw
      THEN [threw |-> TRUE, error |-> toolSchema.error, value |-> fallback,
            cache |-> cache]
      ELSE [threw |-> FALSE, error |-> "", value |-> extraction,
            cache |-> SetLLMAnalysis(cache, cacheKey, extraction)]

\* getOrCreateParameterExtraction(toolName, userRequest, toolReasoning) past
\* the cache: allTools is what getAllTools() returned to getOrCreateSchema,
\* llm what extractParameters comes to.
GetOrCreateParameterExtraction(cache, toolName, userRequest, toolReasoning, allTools, llm) ==
    ParameterExtraction(cache,
        ParameterExtractionKey(toolName, userRequest, toolReasoning),
        GetOrCreateSchema(toolName, allTools),
        IF llm.ok THEN [parameters |-> llm.parameters, confidence |-> 1]
                  ELSE [parameters |-> EmptyObject, confidence |-> 0],
        [parameters |-> EmptyObject, confidence |-> 0])

\* getOrCreateModificationAnalysis(userFeedback, originalTool, originalParameters)
GetOrCreateModificationAnalysis(cache, userFeedback, originalTool, originalParameters, llm) ==
    GetOrCreate(cache,
        "modification:" \o userFeedback \o ":" \o originalTool \o ":"
            \o JsonStringify(originalParameters),
        AnalyzeModifications(cache, userFeedback, originalTool, originalParameters,
                             llm),
        [changes |-> EmptyObject, reasoning |-> "Failed to analyze modifications"])

\* return analysis.userExplanation
UserExplanation(analysis) ==
    [value |-> analysis.value.userExplanation, cache |-> analysis.cache,
     llmFailed |-> analysis.llmFailed]

\* predictOutcome(toolName, parameters)
PredictOutcome(cache, toolName, parameters, llm) ==
    UserExplanation(GetOrCreateToolAnalysis(cache, toolName, parameters, llm))

\* assessRisks: what the words of the safety analysis come to.
Modifies(text) ==
    Includes(text, <<"w", "r", "i", "t", "e">>)
        \/ Includes(text, <<"m", "o", "d", "i", "f", "y">>)
\* An assessment that overlooks deletions.
Deletes_Never(text) == FALSE
Deletes(text) == Includes(text, <<"d", "e", "l", "e", "t", "e">>)
Sensitive(text) == Includes(text, <<"s", "e", "n", "s", "i", "t", "i", "v", "e">>)
System(text) == Includes(text, <<"s", "y", "s", "t", "e", "m">>)
Risks(text) ==
    (IF Modifies(text) THEN <<"This operation may modify your data">> ELSE <<>>)
        \o (IF Deletes(text) THEN <<"This operation may delete data">> ELSE <<>>)
        \o (IF Sensitive(text)
              THEN <<"This operation may access sensitive information">> ELSE <<>>)
        \o (IF System(text) THEN <<"This operation may affect system settings">>
              ELSE <<>>)
ShouldBlock(text) == Modifies(text) \/ Deletes(text) \/ Sensitive(text) \/ System(text)

\* assessRisks past getOrCreateToolAnalysis: text is
\* analysis.safetyAnalysis.toLowerCase().
RiskAssessment(analysis, text) ==
    [risks |-> OrElse(Risks(text), <<"Low risk operation">>),
     shouldBlock |-> ShouldBlock(text),
     cache |-> analysis.cache, llmFailed |-> analysis.llmFailed]
RisksOfAnalysis(analysis) ==
    CHOOSE riskAssessment \in
        {RiskAssessment(analysis, text) :
             text \in {ToLowerCase(analysis.value.safetyAnalysis)}} : TRUE

\* assessRisks(toolName, parameters)
AssessRisks(cache, toolName, parameters, llm) ==
    CHOOSE riskAssessment \in
        {RisksOfAnalysis(analysis) :
             analysis \in {GetOrCreateToolAnalysis(cache, toolName, parameters, llm)}} :
        TRUE

\* { ...originalParameters, ...changes }
Spread(originalParameters, changes) ==
    [k \in DOMAIN originalParameters \cup DOMAIN changes |->
        IF k \in DOMAIN changes THEN changes[k] ELSE originalParameters[k]]

(***************************************************************************)
(* DynamicFlow: processUserRequest, step by step.                          *)
(***************************************************************************)
StopMessage == "Stopped processing. How can I help you?"
NoToolMessage ==
    "I couldn't find a suitable tool for your request. Please try rephrasing your request."

NoPlan == [originalTool |-> "", originalParameters |-> EmptyObject,
           userFeedback |-> "", originalRequest |-> <<>>]
IdleFlow == [pc |-> "idle", originalUserRequest |-> <<>>, userRequest |-> <<>>,
             availableTools |-> <<>>, tool |-> "", reasoning |-> "",
             parameters |-> EmptyObject, modifiedPlan |-> NoPlan,
             newParameters |-> EmptyObject, inModify |-> FALSE, mods |-> 0,
             ret |-> "", error |-> ""]
\* A plan: the tool and the parameters that are assessed and shown to the user.
Planned(toolName, parameters) == [tool |-> toolName, parameters |-> parameters]
NoPlanned == Planned("", EmptyObject)
NoTrace == [invoked |-> {}, assessedBlocked |-> {}, approved |-> {},
            executed |-> {}, selected |-> "", assessed |-> FALSE,
            llmFailed |-> FALSE, shouldBlock |-> FALSE, risks |-> <<>>,
            assessedIn |-> "", consulted |-> FALSE, modified |-> FALSE,
            decision |-> "none", consentThrew |-> FALSE,
            presented |-> NoPlanned, reassessed |-> NoPlanned,
            changes |-> EmptyObject, assessedPlans |-> {}]

Request_Show ==
    <<"s", "h", "o", "w", " ", "t", "1">>
Request_Stop ==
    <<"P", "l", "e", "a", "s", "e", " ", "S", "T", "O", "P">>
Request_Exit ==
    <<"e", "x", "i", "t">>
UserRequests == {Request_Show, Request_Stop, Request_Exit}

Answer_SelectT1 ==
    <<"S", "E", "L", "E", "C", "T", "E", "D", " ", "T", "O", "O", "L", ":",
      " ", "t", "1", "\n", "R", "E", "A", "S", "O", "N", "I", "N", "G",
      ":", " ", "f", "i", "t", "s">>
Answer_SelectNone ==
    <<"S", "E", "L", "E", "C", "T", "E", "D", " ", "T", "O", "O", "L", ":",
      " ", "n", "o", "n", "e", "\n", "R", "E", "A", "S", "O", "N", "I",
      "N", "G", ":", " ", "c", "h", "a", "t">>
SelectionAnswers == {LlmFails, LlmSays(Answer_SelectT1), LlmSays(Answer_SelectNone)}

Answer_ReadOnly ==
    <<"U", "S", "E", "R", " ", "E", "X", "P", "L", "A", "N", "A", "T", "I",
      "O", "N", ":", " ", "I", "t", " ", "r", "e", "a", "d", "s", "\n",
      "S", "A", "F", "E", "T", "Y", " ", "A", "N", "A", "L", "Y", "S", "I",
      "S", ":", " ", "R", "e", "a", "d", " ", "o", "n", "l", "y">>
Answer_Writes ==
    <<"U", "S", "E", "R", " ", "E", "X", "P", "L", "A", "N", "A", "T", "I",
      "O", "N", ":", " ", "I", "t", " ", "s", "a", "v", "e", "s", "\n",
      "S", "A", "F", "E", "T", "Y", " ", "A", "N", "A", "L", "Y", "S", "I",
      "S", ":", " ", "W", "i", "l", "l", " ", "W", "R", "I", "T", "E", " ",
      "f", "i", "l", "e", "s">>
AnalysisAnswers == {LlmFails, LlmSays(Answer_ReadOnly), LlmSays(Answer_Writes)}

ExtractionAnswers ==
    {[ok |-> FALSE, parameters |-> EmptyObject]}
        \cup {[ok |-> TRUE, parameters |-> p] : p \in Parameters}
ModificationAnswers ==
    {[ok |-> FALSE, changes |-> EmptyObject]}
        \cup {[ok |-> TRUE, changes |-> p] : p \in Parameters}
ConsentDecisions == {"approved", "modify", "reject", "throws"}
Feedbacks == {"change it"}
FormatOutcomes == {"ok", "fails"}
FlowRegistry == "reg1"
\* While a request is served the tool servers are all up or all down.
FlowFetches == {[server \in Servers |-> o] : o \in FetchOutcomes}

\* processUserRequest returns ret, or throws error: its locals are gone, and
\* what is kept is the request it served.
Return(f, ret) ==
    [IdleFlow EXCEPT !.pc = "returned", !.originalUserRequest = f.originalUserRequest,
                     !.ret = ret]
Throw(f, error) ==
    [IdleFlow EXCEPT !.pc = "raised", !.originalUserRequest = f.originalUserRequest,
                     !.error = error]

\* An error thrown while the flow stands at f: executeModifiedPlan catches
\* what is thrown under it, nothing else does.
Raise(f, error) ==
    IF f.inModify
      THEN Return(f, "Failed to modify plan: " \o error
                         \o ". Please try rephrasing your request.")
      ELSE Throw(f, error)

\* processUserRequest(originalUserRequest) up to the tools getAllTools() returns.
ProcessUserRequest(originalUserRequest, resp) ==
    /\ flow.pc \in {"idle", "returned", "raised"}
    /\ requests < MaxRequests
    /\ requests' = requests + 1
    /\ IF IsStopCommand(originalUserRequest)
         THEN /\ flow' = [IdleFlow EXCEPT !.pc = "returned",
                                          !.originalUserRequest = originalUserRequest,
                                          !.ret = StopMessage]
              /\ trace' = NoTrace
              /\ UNCHANGED regVars
         ELSE /\ GetAllTools(FlowRegistry, resp)
              /\ flow' = [IdleFlow EXCEPT !.pc = "selectTool",
                                          !.originalUserRequest = originalUserRequest,
                                          !.availableTools =
                                              GetAllToolsOutcome(FlowRegistry, resp).tools]
              /\ trace' = [NoTrace EXCEPT !.invoked = {"discovery"}]
    /\ UNCHANGED <<toolSchemaCache, llmAnalysisCache, execVars>>

\* A flow that went from the selection straight to executeTool would run a
\* tool that was neither given parameters nor assessed.
FlowSelectTool_ThenExecute(llm) ==
    /\ flow.pc = "selectTool"
    /\ trace' = [trace EXCEPT !.invoked = @ \cup {"selection"}, !.selected = "t1"]
    /\ flow' = [flow EXCEPT !.pc = "execute", !.tool = "t1"]
    /\ UNCHANGED <<toolSchemaCache, llmAnalysisCache, execVars, regVars, requests>>

\* processUserRequest: getOrCreateToolSelection and the test of its answer.
FlowSelectTool(llm) ==
    /\ flow.pc = "selectTool"
    /\ \E toolSelection \in {GetOrCreateToolSelection(llmAnalysisCache,
                                  flow.originalUserRequest, flow.availableTools, llm)} :
           /\ llmAnalysisCache' = toolSelection.cache
           /\ trace' = [trace EXCEPT !.invoked = @ \cup {"selection"},
                                     !.selected = toolSelection.value.tool.v]
           /\ flow' = IF ~Truthy(toolSelection.value.tool)
                        THEN Return(flow, NoToolMessage)
                        ELSE [flow EXCEPT !.pc = "extract",
                                          !.tool = toolSelection.value.tool.v,
                                          !.reasoning = toolSelection.value.reasoning]
    /\ UNCHANGED <<toolSchemaCache, execVars, regVars, requests>>

\* processUserRequest: getOrCreateParameterExtraction, which asks
\* getAllTools() for the schema of the tool unless the extraction is cached.
FlowExtractParameters(llm, resp) ==
    /\ flow.pc = "extract"
    /\ \E cacheKey \in {ParameterExtractionKey(flow.tool, flow.originalUserRequest,
                                                flow.reasoning)} :
         IF HasLLMAnalysis(llmAnalysisCache, cacheKey)
           THEN /\ flow' = [flow EXCEPT !.pc = "assess",
                                !.userRequest = flow.originalUserRequest,
                                !.parameters =
                                    GetLLMAnalysis(llmAnalysisCache, cacheKey).parameters]
                /\ trace' = [trace EXCEPT !.invoked = @ \cup {"extraction"}]
                /\ UNCHANGED <<llmAnalysisCache, regVars>>
           ELSE \E parameterExtraction \in
                       {GetOrCreateParameterExtraction(llmAnalysisCache, flow.tool,
                            flow.originalUserRequest, flow.reasoning,
                            GetAllToolsOutcome(FlowRegistry, resp).tools, llm)} :
                  /\ GetAllTools(FlowRegistry, resp)
                  /\ llmAnalysisCache' = parameterExtraction.cache
                  /\ trace' = [trace EXCEPT !.invoked = @ \cup {"extraction"}]
                  /\ flow' = IF parameterExtraction.threw
                               THEN Raise(flow, parameterExtraction.error)
                               ELSE [flow EXCEPT !.pc = "assess",
                                        !.userRequest = flow.originalUserRequest,
                                        !.parameters =
                                            parameterExtraction.value.parameters]
    /\ UNCHANGED <<toolSchemaCache, execVars, requests>>

\* executeDynamicFlow: shouldBlock sends the plan to the consent request.
NeedsConsent_Never(riskAssessment) == FALSE
NeedsConsent_Always(riskAssessment) == TRUE
NeedsConsent(riskAssessment) == riskAssessment.shouldBlock

\* What an assessment of the plan <<toolName, parameters>> leaves in trace.
Assessed(t, toolName, parameters, riskAssessment, llmFailed) ==
    [t EXCEPT !.invoked = @ \cup {"risk"},
              !.assessed = TRUE,
              !.llmFailed = llmFailed,
              !.shouldBlock = riskAssessment.shouldBlock,
              !.risks = riskAssessment.risks,
              !.assessedPlans = @ \cup {<<toolName, parameters>>},
              !.assessedBlocked = IF riskAssessment.shouldBlock
                                    THEN @ \cup {<<toolName, parameters>>} ELSE @]

\* executeDynamicFlow(llmSelectedTool, llmExtractedParameters,
\* originalUserRequest) up to the branch on the risk assessment.
ExecuteDynamicFlow(llm) ==
    /\ flow.pc = "assess"
    /\ IF IsStopCommand(flow.userRequest)
         THEN /\ flow' = Return(flow, StopMessage)
              /\ UNCHANGED <<llmAnalysisCache, trace>>
         ELSE \E expectedOutcome \in {PredictOutcome(llmAnalysisCache, flow.tool,
                                                     flow.parameters, llm)} :
              \E riskAssessment \in {AssessRisks(expectedOutcome.cache, flow.tool,
                                                 flow.parameters, llm)} :
                /\ llmAnalysisCache' = riskAssessment.cache
                /\ trace' = [Assessed(trace, flow.tool, flow.parameters, riskAssessment,
                                      expectedOutcome.llmFailed \/ riskAssessment.llmFailed)
                                 EXCEPT !.assessedIn = "executeDynamicFlow",
                                        !.consulted = FALSE]
                /\ flow' = [flow EXCEPT !.pc = IF NeedsConsent(riskAssessment)
                                                 THEN "consent" ELSE "execute"]
    /\ UNCHANGED <<toolSchemaCache, execVars, regVars, requests>>

\* executeDynamicFlow: the answer of consent.getConsent for the plan.
FlowGetConsent(decision, userFeedback) ==
    /\ flow.pc = "consent"
    /\ (decision = "modify" /\ flow.inModify) => flow.mods < MaxModifications
    /\ trace' = [trace EXCEPT !.invoked = @ \cup {"consent"},
                              !.consulted = TRUE,
                              !.decision = decision,
                              !.consentThrew = decision = "throws",
                              !.presented = IF decision = "modify"
                                              THEN Planned(flow.tool, flow.parameters)
                                              ELSE @,
                              !.approved = IF decision = "approved"
                                             THEN @ \cup {<<flow.tool, flow.parameters>>}
                                             ELSE @]
    /\ flow' = CASE decision = "approved" -> [flow EXCEPT !.pc = "execute"]
                 [] decision = "modify" ->
                      [flow EXCEPT !.pc = "modify", !.inModify = TRUE,
                                   !.mods = IF flow.inModify THEN @ + 1 ELSE @,
                                   !.modifiedPlan = HandleModificationRequest(userFeedback)]
                 [] decision = "reject" -> Return(flow, HandleRejection(""))
                 [] OTHER -> Raise(flow, "Consent UI not implemented")
    /\ UNCHANGED <<toolSchemaCache, llmAnalysisCache, execVars, regVars, requests>>

\* executeModifiedPlan(modifiedPlan) up to the consent request.
ExecuteModifiedPlan(modification, llm) ==
    /\ flow.pc = "modify"
    /\ \E modifiedPlan \in {flow.modifiedPlan} :
       \E modificationAnalysis \in
               {GetOrCreateModificationAnalysis(llmAnalysisCache,
                    modifiedPlan.userFeedback, modifiedPlan.originalTool,
                    modifiedPlan.originalParameters, modification)} :
       \E newParameters \in {Spread(modifiedPlan.originalParameters,
                                    modificationAnalysis.value.changes)} :
       \E riskAssessment \in {AssessRisks(modificationAnalysis.cache,
                                          modifiedPlan.originalTool, newParameters, llm)} :
           /\ llmAnalysisCache' = riskAssessment.cache
           /\ trace' = [Assessed(trace, modifiedPlan.originalTool, newParameters,
                                 riskAssessment, riskAssessment.llmFailed)
                            EXCEPT !.assessedIn = "executeModifiedPlan",
                                   !.modified = TRUE,
                                   !.decision = "none",
                                   !.reassessed =
                                       Planned(modifiedPlan.originalTool, newParameters),
                                   !.changes = modificationAnalysis.value.changes]
           /\ flow' = IF riskAssessment.shouldBlock
                        THEN Return(flow, "Modified plan blocked for safety reasons")
                        ELSE [flow EXCEPT !.pc = "modconsent",
                                          !.newParameters = newParameters]
    /\ UNCHANGED <<toolSchemaCache, execVars, regVars, requests>>

\* A modification loop with a bound of one iteration would end the request
\* when the user asks for a change of a plan that is already a modified one.
FlowGetConsentModified_Bounded(decision, userFeedback, llm) ==
    /\ flow.pc = "modconsent"
    /\ decision = "modify"
    /\ trace' = [trace EXCEPT !.invoked = @ \cup {"consent"}, !.decision = decision]
    /\ flow' = Return(flow, "Too many modifications")
    /\ UNCHANGED <<toolSchemaCache, llmAnalysisCache, execVars, regVars, requests>>

\* executeModifiedPlan: predictOutcome for the consent request, and the
\* answer of consent.getConsent for the modified plan.
FlowGetConsentModified(decision, userFeedback, llm) ==
    /\ flow.pc = "modconsent"
    /\ decision = "modify" => flow.mods < MaxModifications
    /\ \E modifiedPlan \in {flow.modifiedPlan} :
       \E expectedOutcome \in {PredictOutcome(llmAnalysisCache,
                                    modifiedPlan.originalTool, flow.newParameters, llm)} :
           /\ llmAnalysisCache' = expectedOutcome.cache
           /\ trace' = [trace EXCEPT
                  !.invoked = @ \cup {"consent"},
                  !.decision = decision,
                  !.consentThrew = decision = "throws",
                  !.presented = IF decision = "modify"
                                  THEN Planned(modifiedPlan.originalTool, flow.newParameters)
                                  ELSE @,
                  !.approved = IF decision = "approved"
                                 THEN @ \cup {<<modifiedPlan.originalTool,
                                                flow.newParameters>>}
                                 ELSE @]
           /\ flow' = CASE decision = "approved" ->
                            [flow EXCEPT !.pc = "assess",
                                         !.tool = modifiedPlan.originalTool,
                                         !.parameters = flow.newParameters,
                                         !.userRequest = modifiedPlan.originalRequest]
                       [] decision = "modify" ->
                            [flow EXCEPT !.pc = "modify", !.mods = @ + 1,
                                         !.modifiedPlan =
                                             [modifiedPlan EXCEPT
                                                 !.userFeedback = userFeedback,
                                                 !.originalParameters = flow.newParameters]]
                       [] decision = "reject" -> Return(flow, HandleRejection(""))
                       [] OTHER -> Raise(flow, "Consent UI not implemented")
    /\ UNCHANGED <<toolSchemaCache, execVars, regVars, requests>>

\* executeDynamicFlow: this.execution.executeTool(llmSelectedTool,
\* llmExtractedParameters) is called.
FlowExecuteTool ==
    /\ flow.pc = "execute"
    /\ ExecuteToolStart("flow", flow.tool, flow.parameters, "default")
    /\ flow' = [flow EXCEPT !.pc = "executing"]
    /\ trace' = [trace EXCEPT !.invoked = @ \cup {"execution"},
                              !.executed = @ \cup {<<flow.tool, flow.parameters>>}]
    /\ UNCHANGED <<llmAnalysisCache, regVars, requests>>

\* executeDynamicFlow: executeTool has returned and its result is formatted.
FlowFormatResponse(llm) ==
    /\ flow.pc = "executing"
    /\ calls["flow"].pc = "returned"
    /\ \E formatted \in {FormatResponseWithLLM(llmAnalysisCache,
                              calls["flow"].ret.result, flow.userRequest, flow.tool, llm)} :
           /\ llmAnalysisCache' = formatted.cache
           /\ flow' = IF formatted.threw THEN Raise(flow, "LLM operation failed")
                      ELSE Return(flow, formatted.value)
    /\ trace' = [trace EXCEPT !.invoked = @ \cup {"format"}]
    /\ UNCHANGED <<toolSchemaCache, execVars, regVars, requests>>

(***************************************************************************)
(* Passage of time: every time-to-live runs down, an entry whose           *)
(* time-to-live is used up is gone, and every "time since" grows.          *)
(***************************************************************************)
Expire(e, d, none) == IF e.ttl > d THEN [e EXCEPT !.ttl = @ - d] ELSE none
Elapse(t, d, most) == IF t + d < most THEN t + d ELSE most

NoObservation == [executionId |-> 0, prev |-> "none", cur |-> "none", cancelled |-> FALSE]

Tick(d) ==
    /\ toolSchemaCache' = StoreAge(toolSchemaCache, d)
    /\ execStore' = [k \in DOMAIN execStore |-> Expire(execStore[k], d, NoRecord)]
    /\ lastSuccess' = StoreAge(lastSuccess, d)
    /\ observed' = IF \E st \in {"completed", "cancelled"} :
                         /\ observed.executionId \in ExecIds
                         /\ execStore[<<observed.executionId, st>>].ttl > 0
                         /\ execStore[<<observed.executionId, st>>].ttl <= d
                    THEN NoObservation ELSE observed
    /\ toolDiscoveryCache' =
          [server \in Servers |-> Expire(toolDiscoveryCache[server], d, NoDiscovery)]
    /\ timeSinceLastAttempt' =
          [r \in Registries |-> Elapse(timeSinceLastAttempt[r], d, discoveryCooldown + 1)]
    /\ serverErrorCounts' =
          [r \in Registries |-> [server \in Servers |->
              [serverErrorCounts[r][server] EXCEPT
                  !.timeSinceLastError = Elapse(@, d, circuitBreakerTimeout)]]]
    /\ fetchLog' =
          [r \in Registries |-> [server \in Servers |->
              [fetchLog[r][server] EXCEPT
                  !.sinceFailure = Elapse(@, d, circuitBreakerTimeout)]]]
    /\ lastOp' = [NoOp EXCEPT !.kind = "tick"]
    /\ lastGet' = IF \E server \in Servers :
                        /\ toolDiscoveryCache[server].ttl > 0
                        /\ toolDiscoveryCache[server].ttl <= d
                    THEN NoGet ELSE Expire(lastGet, d, NoGet)
    /\ llmAnalysisCache' = StoreAge(llmAnalysisCache, d)
    /\ UNCHANGED <<nextExecId, calls, serverTools, flowVars>>

ExecTickSteps == {EXECUTION_TTL \div 2}
RegistryTickSteps == {discoveryCooldown + 1}
RegistryLeapSteps == {TTL_TOOL_SCHEMA}

\* No function is being evaluated.
NoEvaluation == [fn |-> "none", pc |-> "done"]

\* The state after the construction of the services.
Constructed ==
    /\ toolSchemaCache = EmptyStore
    /\ execStore = [k \in ExecIds \X {"running", "completed", "cancelled"} |-> NoRecord]
    /\ nextExecId = 1
    /\ calls = [c \in Callers |-> IdleCall]
    /\ lastSuccess = EmptyStore
    /\ observed = NoObservation
    /\ serverErrorCounts = [r \in Registries |-> [server \in Servers |-> NoErrors]]
    /\ timeSinceLastAttempt = [r \in Registries |-> discoveryCooldown + 1]
    /\ toolDiscoveryCache = [server \in Servers |-> NoDiscovery]
    /\ serverTools = [server \in Servers |->
                         <<[name |-> ToolOf(server), schema |-> "v1"]>>]
    /\ lastOp = NoOp
    /\ lastGet = NoGet
    /\ fetchLog = [r \in Registries |-> [server \in Servers |-> NoFailures]]
    /\ clock = 0
    /\ llmAnalysisCache = EmptyStore
    /\ flow = IdleFlow
    /\ trace = NoTrace
    /\ requests = 0

Init ==
    /\ Constructed
    /\ evaluation = NoEvaluation

(***************************************************************************)
(* The Execution Tracker driven by a client.                               *)
(***************************************************************************)
ClientExecuteTool ==
    /\ \E c \in Clients, t \in ClientTools, p \in Parameters :
          ExecuteToolStart(c, t, p, "default")
    /\ UNCHANGED <<llmAnalysisCache, regVars, flowVars, clockVars>>
ServerFails ==
    /\ \E c \in Clients : ExecuteToolFail(c, "MCP server is currently unavailable")
    /\ UNCHANGED <<llmAnalysisCache, regVars, flowVars, clockVars>>
ServerResponds ==
    /\ \E c \in Clients, r \in ToolResults : ExecuteToolRespond(c, r)
    /\ UNCHANGED <<llmAnalysisCache, regVars, flowVars, clockVars>>
ClientPersist ==
    /\ \E c \in Clients : ExecuteToolPersist(c)
    /\ UNCHANGED <<llmAnalysisCache, regVars, flowVars, clockVars>>
ClientCancel ==
    /\ \E id \in ExecIds : CancelExecution(id)
    /\ UNCHANGED <<llmAnalysisCache, regVars, flowVars, clockVars>>
ClientStatus ==
    /\ \E id \in ExecIds : GetExecutionStatus(id)
    /\ UNCHANGED <<llmAnalysisCache, regVars, flowVars, clockVars>>
ExecClock == (\E d \in ExecTickSteps : Tick(d)) /\ UNCHANGED clockVars

NextExecution ==
    \/ ClientExecuteTool
    \/ ServerFails
    \/ ServerResponds
    \/ ClientPersist
    \/ ClientCancel
    \/ ClientStatus
    \/ ExecClock

SpecExecution == Init /\ [][NextExecution]_vars

(***************************************************************************)
(* The Execution Tracker over stores whose writes may fail.                *)
(***************************************************************************)
StoreErrors == {"Connection is closed."}
CacheWriteFails ==
    /\ \E c \in Clients, r \in ToolResults, error \in StoreErrors :
          ExecuteToolCacheThrows(c, r, error)
    /\ UNCHANGED <<llmAnalysisCache, regVars, flowVars, clockVars>>
StatusWriteFails ==
    /\ \E c \in Clients, error \in StoreErrors : ExecuteToolSetexThrows(c, error)
    /\ UNCHANGED <<llmAnalysisCache, regVars, flowVars, clockVars>>

NextStoreFaults ==
    \/ ClientExecuteTool
    \/ ServerFails
    \/ ServerResponds
    \/ ClientPersist
    \/ CacheWriteFails
    \/ StatusWriteFails
    \/ ClientStatus
    \/ ExecClock

SpecStoreFaults == Init /\ [][NextStoreFaults]_vars

(***************************************************************************)
(* The Tool Registry: registries sharing one cache store.                  *)
(***************************************************************************)
Discover ==
    /\ \E r \in Registries, resp \in [Servers -> FetchOutcomes] : GetAllTools(r, resp)
    /\ UNCHANGED <<llmAnalysisCache, execVars, flowVars, clockVars>>
Refresh ==
    /\ \E t \in RefreshTools, server \in Servers, outcome \in FetchOutcomes :
          RefreshToolSchema(t, server, outcome)
    /\ UNCHANGED <<llmAnalysisCache, execVars, flowVars, clockVars>>
CatalogChange ==
    /\ \E server \in Servers : \E tools \in Catalog(server) : ServerChanges(server, tools)
    /\ UNCHANGED <<llmAnalysisCache, execVars, flowVars, clockVars>>
\* Time passes by the shortest period that ends the discovery cooldown (the
\* circuit breaker outlasts it), MaxClock times at most, or by a period that
\* outlasts every time-to-live.
RegistryStep ==
    /\ clock < MaxClock
    /\ \E d \in RegistryTickSteps : Tick(d)
    /\ clock' = clock + 1
    /\ UNCHANGED evaluation
RegistryLeap == (\E d \in RegistryLeapSteps : Tick(d)) /\ UNCHANGED clockVars

NextRegistry ==
    \/ Discover
    \/ Refresh
    \/ CatalogChange
    \/ RegistryStep
    \/ RegistryLeap

SpecRegistry == Init /\ [][NextRegistry]_vars

(***************************************************************************)
(* The Tool Registry with its cache refreshed by hand.                     *)
(***************************************************************************)
RefreshesCache ==
    /\ \E r \in Registries, resp \in [Servers -> FetchOutcomes] : RefreshCache(r, resp)
    /\ UNCHANGED <<llmAnalysisCache, execVars, flowVars, clockVars>>

NextRefresh ==
    \/ Discover
    \/ RefreshesCache
    \/ RegistryStep
    \/ RegistryLeap

SpecRefresh == Init /\ [][NextRefresh]_vars

(***************************************************************************)
(* The orchestrator serving requests one after the other.                  *)
(***************************************************************************)
UserAsks ==
    /\ \E request \in UserRequests, resp \in FlowFetches :
          ProcessUserRequest(request, resp)
    /\ UNCHANGED clockVars
ModelSelects ==
    /\ \E llm \in SelectionAnswers : FlowSelectTool(llm)
    /\ UNCHANGED clockVars
ModelExtracts ==
    /\ \E llm \in ExtractionAnswers, resp \in FlowFetches :
          FlowExtractParameters(llm, resp)
    /\ UNCHANGED clockVars
ModelAssesses ==
    /\ \E llm \in AnalysisAnswers : ExecuteDynamicFlow(llm)
    /\ UNCHANGED clockVars
UserDecides ==
    /\ \E decision \in ConsentDecisions, feedback \in Feedbacks :
          FlowGetConsent(decision, feedback)
    /\ UNCHANGED clockVars
ModelModifies ==
    /\ \E modification \in ModificationAnswers, llm \in AnalysisAnswers :
          ExecuteModifiedPlan(modification, llm)
    /\ UNCHANGED clockVars
UserDecidesModified ==
    /\ \E decision \in ConsentDecisions, feedback \in Feedbacks,
          llm \in AnalysisAnswers : FlowGetConsentModified(decision, feedback, llm)
    /\ UNCHANGED clockVars
FlowExecutes == FlowExecuteTool /\ UNCHANGED clockVars
FlowServerFails ==
    /\ ExecuteToolFail("flow", "MCP server is currently unavailable")
    /\ UNCHANGED <<llmAnalysisCache, regVars, flowVars, clockVars>>
FlowServerResponds ==
    /\ \E r \in ToolResults : ExecuteToolRespond("flow", r)
    /\ UNCHANGED <<llmAnalysisCache, regVars, flowVars, clockVars>>
FlowPersists ==
    /\ ExecuteToolPersist("flow")
    /\ UNCHANGED <<llmAnalysisCache, regVars, flowVars, clockVars>>
ModelFormats ==
    /\ \E llm \in FormatOutcomes : FlowFormatResponse(llm)
    /\ UNCHANGED clockVars
\* While the flow waits for the user (for a request or for consent) the
\* memoised answers of the model may run out.
FlowLeapSteps == {TTL_LLM_ANALYSIS}
FlowLeap ==
    /\ flow.pc \in {"idle", "returned", "raised", "consent", "modconsent"}
    /\ \E d \in FlowLeapSteps : Tick(d)
    /\ UNCHANGED clockVars

Next ==
    \/ UserAsks
    \/ ModelSelects
    \/ ModelExtracts
    \/ ModelAssesses
    \/ UserDecides
    \/ ModelModifies
    \/ UserDecidesModified
    \/ FlowExecutes
    \/ FlowServerFails
    \/ FlowServerResponds
    \/ FlowPersists
    \/ ModelFormats
    \/ FlowLeap

Spec == Init /\ [][Next]_vars

\* Every call that processUserRequest awaits (the model, the cache, the tool
\* server, the consent channel) comes back: a request that waits for one of
\* them does not wait forever.
FlowProgress ==
    \/ ModelSelects
    \/ ModelExtracts
    \/ ModelAssesses
    \/ UserDecides
    \/ ModelModifies
    \/ UserDecidesModified
    \/ FlowExecutes
    \/ FlowServerFails
    \/ FlowServerResponds
    \/ FlowPersists
    \/ ModelFormats

SpecTermination == Init /\ [][Next]_vars /\ WF_vars(FlowProgress)

(***************************************************************************)
(* The orchestrator of DynamicFlowInterface.ts, which turns away the plans *)
(* its risk assessment blocks and asks consent for every other plan.  Its  *)
(* processUserRequest, executeModifiedPlan and consent handling read as    *)
(* those above; its assessRisks does not block on 'system'.                *)
(***************************************************************************)
HardBlockedMessage == "Operation blocked for safety reasons"
ModifiedBlockedMessage == "Modified plan blocked for safety reasons"

\* assessRisks of DynamicFlowInterface.ts past getOrCreateToolAnalysis.
HardRiskAssessment(analysis, text) ==
    [risks |-> OrElse(Risks(text), <<"Low risk operation">>),
     shouldBlock |-> (Modifies(text) \/ Deletes(text) \/ Sensitive(text)),
     cache |-> analysis.cache, llmFailed |-> analysis.llmFailed]
HardAssessRisks(cache, toolName, parameters, llm) ==
    CHOOSE riskAssessment \in
        {HardRiskAssessment(analysis, ToLowerCase(analysis.value.safetyAnalysis)) :
             analysis \in {GetOrCreateToolAnalysis(cache, toolName, parameters, llm)}} :
        TRUE

\* An orchestrator that let the blocked plans through to the consent request.
HardBlocks_Never(riskAssessment) == FALSE
\* if (riskAssessment.shouldBlock)
HardBlocks(riskAssessment) == riskAssessment.shouldBlock

\* executeDynamicFlow of DynamicFlowInterface.ts up to the consent request:
\* a blocked plan ends the request, controlFlow.stopAllProcessing returning.
HardExecuteDynamicFlow(llm) ==
    /\ flow.pc = "assess"
    /\ IF IsStopCommand(flow.userRequest)
         THEN /\ flow' = Return(flow, StopMessage)
              /\ UNCHANGED <<llmAnalysisCache, trace>>
         ELSE \E expectedOutcome \in {PredictOutcome(llmAnalysisCache, flow.tool,
                                                     flow.parameters, llm)} :
              \E riskAssessment \in {HardAssessRisks(expectedOutcome.cache, flow.tool,
                                                     flow.parameters, llm)} :
                /\ llmAnalysisCache' = riskAssessment.cache
                /\ trace' = [Assessed(trace, flow.tool, flow.parameters, riskAssessment,
                                      expectedOutcome.llmFailed \/ riskAssessment.llmFailed)
                                 EXCEPT !.assessedIn = "executeDynamicFlow",
                                        !.consulted = FALSE,
                                        !.decision = "none"]
                /\ flow' = IF HardBlocks(riskAssessment)
                             THEN Return(flow, HardBlockedMessage)
                             ELSE [flow EXCEPT !.pc = "consent"]
    /\ UNCHANGED <<toolSchemaCache, execVars, regVars, requests>>

\* executeModifiedPlan of DynamicFlowInterface.ts up to the consent request.
HardExecuteModifiedPlan(modification, llm) ==
    /\ flow.pc = "modify"
    /\ \E modifiedPlan \in {flow.modifiedPlan} :
       \E modificationAnalysis \in
               {GetOrCreateModificationAnalysis(llmAnalysisCache,
                    modifiedPlan.userFeedback, modifiedPlan.originalTool,
                    modifiedPlan.originalParameters, modification)} :
       \E newParameters \in {Spread(modifiedPlan.originalParameters,
                                    modificationAnalysis.value.changes)} :
       \E riskAssessment \in {HardAssessRisks(modificationAnalysis.cache,
                                  modifiedPlan.originalTool, newParameters, llm)} :
           /\ llmAnalysisCache' = riskAssessment.cache
           /\ trace' = [Assessed(trace, modifiedPlan.originalTool, newParameters,
                                 riskAssessment, riskAssessment.llmFailed)
                            EXCEPT !.assessedIn = "executeModifiedPlan",
                                   !.modified = TRUE,
                                   !.decision = "none",
                                   !.reassessed =
                                       Planned(modifiedPlan.originalTool, newParameters),
                                   !.changes = modificationAnalysis.value.changes]
           /\ flow' = IF riskAssessment.shouldBlock
                        THEN Return(flow, ModifiedBlockedMessage)
                        ELSE [flow EXCEPT !.pc = "modconsent",
                                          !.newParameters = newParameters]
    /\ UNCHANGED <<toolSchemaCache, execVars, regVars, requests>>

\* executeDynamicFlow of DynamicFlowInterface.ts after executeTool: the raw
\* response that response.getToolResponse(result.executionId) hands over,
\* taken to be the result of the execution, is formatted.
HardFormatResponse(llm) ==
    /\ flow.pc = "executing"
    /\ calls["flow"].pc = "returned"
    /\ \E formatted \in {FormatResponseWithLLM(llmAnalysisCache,
                              calls["flow"].ret.result, flow.userRequest, flow.tool, llm)} :
           /\ llmAnalysisCache' = formatted.cache
           /\ flow' = IF formatted.threw THEN Raise(flow, "LLM operation failed")
                      ELSE Return(flow, formatted.value)
    /\ trace' = [trace EXCEPT !.invoked = @ \cup {"format"}]
    /\ UNCHANGED <<toolSchemaCache, execVars, regVars, requests>>

HardAssesses ==
    /\ \E llm \in AnalysisAnswers : HardExecuteDynamicFlow(llm)
    /\ UNCHANGED clockVars
HardModifies ==
    /\ \E modification \in ModificationAnswers, llm \in AnalysisAnswers :
          HardExecuteModifiedPlan(modification, llm)
    /\ UNCHANGED clockVars
HardFormats ==
    /\ \E llm \in FormatOutcomes : HardFormatResponse(llm)
    /\ UNCHANGED clockVars

NextHardBlock ==
    \/ UserAsks
    \/ ModelSelects
    \/ ModelExtracts
    \/ HardAssesses
    \/ UserDecides
    \/ HardModifies
    \/ UserDecidesModified
    \/ FlowExecutes
    \/ FlowServerFails
    \/ FlowServerResponds
    \/ FlowPersists
    \/ HardFormats
    \/ FlowLeap

SpecHardBlock == Init /\ [][NextHardBlock]_vars

(***************************************************************************)
(* The routes /api/mcp-tools and /api/mcp-call-tool over the               *)
(* MCPServerManager.  Requests are served one after the other; the state   *)
(* of the routes is kept in evaluation.                                    *)
(***************************************************************************)
\* What a request may name as its server: a configured one, one that is
\* not configured, or none.
RouteServers == {Str(server) : server \in Servers} \cup {Str("s3"), Null}
RouteTools == {Str("t1")}
RouteArgs == {Undefined, [t |-> "object", v |-> [a |-> 1]]}
NoRouteRequest == [route |-> "", server |-> Null, toolName |-> Undefined, args |-> Undefined, id |-> 0]
NoRouteResponse == [status |-> 0, result |-> Undefined, id |-> 0]
NoConnection == [url |-> "", connected |-> FALSE, closed |-> FALSE]
IdleRoutes ==
    [fn |-> "routes", pc |-> "idle", instance |-> "", request |-> NoRouteRequest,
     connection |-> NoConnection, response |-> NoRouteResponse, served |-> <<>>,
     invocations |-> {}]

\* MCPServerManager.getInstance(serverUrl): the manager, known by its
\* serverUrl, that the static field holds after the call.
GetInstance(instance, serverUrl) == IF instance = "" THEN serverUrl ELSE instance

\* env.MCP_SERVERS.find(serverUrl => serverUrl === server)
FindServer(server) ==
    IF server.t = "string" /\ server.v \in Servers THEN Str(server.v) ELSE Undefined

\* NextResponse.json(..., {status}): the request is over.
RouteResponds(e, status, result) ==
    [e EXCEPT !.pc = "idle",
              !.response = [status |-> status, result |-> result, id |-> e.request.id],
              !.served = Append(@, [route |-> e.request.route,
                                    server |-> e.request.server,
                                    url |-> e.connection.url,
                                    connected |-> e.connection.connected,
                                    closed |-> e.connection.closed,
                                    status |-> status])]

\* GET and POST up to client.connect(transport): the checks of the server
\* parameter, getInstance and the transport to the address of the manager.
RouteEnter(e, request) ==
    CHOOSE after \in
        {IF ~Truthy(received.request.server) THEN RouteResponds(received, 400, Undefined)
         ELSE IF ~Truthy(FindServer(received.request.server))
           THEN RouteResponds(received, 404, Undefined)
         ELSE [received EXCEPT
                  !.pc = "connecting",
                  !.instance = GetInstance(@, FindServer(received.request.server).v),
                  !.connection = [url |-> GetInstance(received.instance,
                                              FindServer(received.request.server).v),
                                  connected |-> FALSE, closed |-> FALSE]] :
             received \in {[e EXCEPT !.request = request,
                                     !.connection = NoConnection]}} : TRUE

\* client.connect(transport) throws: finally client.close(), status 500.
RouteConnectThrows(e) ==
    RouteResponds([e EXCEPT !.connection.closed = TRUE], 500, Undefined)

\* client.connect(transport) returns.
RouteConnected(e) == [e EXCEPT !.pc = "operating", !.connection.connected = TRUE]

\* What reaches the tool server: client.listTools(), or
\* client.callTool({name: toolName, arguments: args}).
RouteInvocation(e) ==
    [url |-> e.connection.url, route |-> e.request.route, name |-> e.request.toolName,
     arguments |-> e.request.args, id |-> e.request.id]

\* The operation throws: finally client.close(), status 500.
RouteOperationThrows(e) ==
    RouteResponds([e EXCEPT !.connection.closed = TRUE,
                            !.invocations = @ \cup {RouteInvocation(e)}],
                  500, Undefined)

\* The operation returns: finally client.close(), {success: true, ...}.
RouteOperationReturns(e, result) ==
    RouteResponds([e EXCEPT !.connection.closed = TRUE,
                            !.invocations = @ \cup {RouteInvocation(e)}],
                  200, result)

InitRoutes ==
    /\ Constructed
    /\ evaluation = IdleRoutes

\* GET /api/mcp-tools?server=serverName
GetTools ==
    /\ evaluation.pc = "idle"
    /\ Len(evaluation.served) < MaxServed
    /\ \E serverName \in RouteServers :
          evaluation' = RouteEnter(evaluation,
                            [NoRouteRequest EXCEPT !.route = "mcp-tools",
                                                   !.server = serverName])
    /\ UNCHANGED <<toolSchemaCache, llmAnalysisCache, execVars, regVars, flowVars, clock>>

\* POST /api/mcp-call-tool with the body {server, toolName, args}
PostCallTool ==
    /\ evaluation.pc = "idle"
    /\ Len(evaluation.served) < MaxServed
    /\ \E server \in RouteServers, toolName \in RouteTools, args \in RouteArgs :
          evaluation' = RouteEnter(evaluation,
                            [NoRouteRequest EXCEPT !.route = "mcp-call-tool",
                                                   !.server = server,
                                                   !.toolName = toolName,
                                                   !.args = args])
    /\ UNCHANGED <<toolSchemaCache, llmAnalysisCache, execVars, regVars, flowVars, clock>>

ConnectThrows ==
    /\ evaluation.pc = "connecting"
    /\ evaluation' = RouteConnectThrows(evaluation)
    /\ UNCHANGED <<toolSchemaCache, llmAnalysisCache, execVars, regVars, flowVars, clock>>

Connects ==
    /\ evaluation.pc = "connecting"
    /\ evaluation' = RouteConnected(evaluation)
    /\ UNCHANGED <<toolSchemaCache, llmAnalysisCache, execVars, regVars, flowVars, clock>>

OperationThrows ==
    /\ evaluation.pc = "operating"
    /\ evaluation' = RouteOperationThrows(evaluation)
    /\ UNCHANGED <<toolSchemaCache, llmAnalysisCache, execVars, regVars, flowVars, clock>>

OperationReturns ==
    /\ evaluation.pc = "operating"
    /\ \E result \in ToolResults : evaluation' = RouteOperationReturns(evaluation, result)
    /\ UNCHANGED <<toolSchemaCache, llmAnalysisCache, execVars, regVars, flowVars, clock>>

NextRoutes ==
    \/ GetTools
    \/ PostCallTool
    \/ ConnectThrows
    \/ Connects
    \/ OperationThrows
    \/ OperationReturns

SpecRoutes == InitRoutes /\ [][NextRoutes]_vars

(***************************************************************************)
(* The orchestrator and a client of the Execution Tracker, the fetch of    *)
(* executeTool being served by the route /api/mcp-call-tool.               *)
(***************************************************************************)
\* JSON.stringify({toolName, parameters, server}) as request.json() reads it.
ExecuteToolBody(call) ==
    [t |-> "object",
     v |-> [toolName |-> Str(call.tool),
            parameters |-> [t |-> "object", v |-> call.params],
            server |-> Str(call.server)]]

\* const { server, toolName, args } = await request.json()
CallToolRequest(body, id) ==
    [route |-> "mcp-call-tool", server |-> Get(body, "server"),
     toolName |-> Get(body, "toolName"), args |-> Get(body, "args"), id |-> id]

\* The servers a tool is discovered from.
DiscoveredFrom(toolName) == {server \in Servers : ToolOf(server) = toolName}

\* The answer of the route to the fetch of c has not been read yet.
Answered(c) ==
    /\ calls[c].pc = "fetching"
    /\ evaluation.pc = "idle"
    /\ evaluation.response.id = calls[c].executionId

\* executeTool(toolName, parameters, server) called with a server.
ClientExecuteToolOn ==
    /\ \E c \in Clients, t \in ClientTools, p \in Parameters,
          server \in Servers \cup {"default"} : ExecuteToolStart(c, t, p, server)
    /\ UNCHANGED <<llmAnalysisCache, regVars, flowVars, clockVars>>

\* The fetch of executeTool arrives at POST /api/mcp-call-tool.
TrackerPosts ==
    /\ evaluation.pc = "idle"
    /\ Len(evaluation.served) < MaxServed
    /\ \A c \in Callers : ~Answered(c)
    /\ \E c \in Callers :
          /\ calls[c].pc = "fetching"
          /\ evaluation' = RouteEnter(evaluation,
                               CallToolRequest(ExecuteToolBody(calls[c]),
                                               calls[c].executionId))
    /\ UNCHANGED <<toolSchemaCache, llmAnalysisCache, execVars, regVars, flowVars, clock>>

\* if (!response.ok)
TrackerReceivesFailure ==
    /\ \E c \in Callers :
          /\ Answered(c)
          /\ evaluation.response.status # 200
          /\ ExecuteToolFail(c, "MCP server is currently unavailable")
    /\ UNCHANGED <<llmAnalysisCache, regVars, flowVars, clockVars>>

\* The route answered {success: true, server, result}.
TrackerReceivesSuccess ==
    /\ \E c \in Callers :
          /\ Answered(c)
          /\ evaluation.response.status = 200
          /\ ExecuteToolRespond(c, evaluation.response.result)
    /\ UNCHANGED <<llmAnalysisCache, regVars, flowVars, clockVars>>

TrackerPersists ==
    /\ \E c \in Callers : ExecuteToolPersist(c)
    /\ UNCHANGED <<llmAnalysisCache, regVars, flowVars, clockVars>>

NextInvocation ==
    \/ UserAsks
    \/ ModelSelects
    \/ ModelExtracts
    \/ ModelAssesses
    \/ UserDecides
    \/ FlowExecutes
    \/ ModelFormats
    \/ ClientExecuteToolOn
    \/ TrackerPosts
    \/ ConnectThrows
    \/ Connects
    \/ OperationThrows
    \/ OperationReturns
    \/ TrackerReceivesFailure
    \/ TrackerReceivesSuccess
    \/ TrackerPersists

SpecInvocation == InitRoutes /\ [][NextInvocation]_vars

(***************************************************************************)
(* validateToolSchema applied to tool descriptors of every shape.          *)
(***************************************************************************)
Object(fields) == [t |-> "object", v |-> fields]
Array(items) == [t |-> "array", v |-> items]

PropertiesInputs ==
    {Undefined, Str("p"),
     Object([a |-> Object([type |-> Str("string")])]),
     Object([a |-> Null])}
RequiredInputs ==
    {Undefined, Str("a"), Array(<<>>), Array(<<"a">>), Array(<<"a", "b">>)}
InputSchemaInputs ==
    {Undefined, Str("x")}
        \cup {Object([properties |-> p, required |-> r]) :
                  p \in PropertiesInputs, r \in RequiredInputs}
SchemaInputs ==
    {Undefined, Str("text")}
        \cup {Object([inputSchema |-> i]) : i \in InputSchemaInputs}
ToolInputs ==
    {Null, Undefined}
        \cup {Object([name |-> n, description |-> d, schema |-> sch]) :
                  n \in {Undefined, Str(""), Str("t1")},
                  d \in {Undefined, Str("d")},
                  sch \in SchemaInputs}

InitValidation ==
    /\ Constructed
    /\ evaluation \in {[fn |-> "validateToolSchema", pc |-> "called", arg |-> tool] :
                           tool \in ToolInputs}

Validate ==
    /\ evaluation.fn = "validateToolSchema"
    /\ evaluation.pc = "called"
    /\ evaluation' = [fn |-> "validateToolSchema", pc |-> "done",
                      arg |-> evaluation.arg,
                      ret |-> ValidateToolSchema(evaluation.arg)]
    /\ UNCHANGED <<toolSchemaCache, llmAnalysisCache, execVars, regVars, flowVars,
                   clock>>

NextValidation == Validate

SpecValidation == InitValidation /\ [][NextValidation]_vars

(***************************************************************************)
(* assessRisks applied to safety analyses of every wording.                *)
(***************************************************************************)
SafetyWords ==
    {<<"r", "e", "a", "d", "s">>,
     <<"W", "r", "i", "t", "e", "s">>,
     <<"M", "O", "D", "I", "F", "Y">>,
     <<"m", "o", "d", "i", "f", "i", "e", "d">>,
     <<"D", "e", "l", "e", "t", "e", "s">>,
     <<"s", "e", "n", "s", "i", "t", "i", "v", "e">>,
     <<"S", "Y", "S", "T", "E", "M">>,
     <<"s", "a", "f", "e">>}
SafetyTexts ==
    {<<"I", "t", " ">> \o first \o <<" ", "&", " ">> \o second :
         first \in SafetyWords, second \in SafetyWords}

InitAssessment ==
    /\ Constructed
    /\ evaluation \in {[fn |-> "assessRisks", pc |-> "called", arg |-> text] :
                           text \in SafetyTexts}

\* assessRisks for a tool whose analysis, with the safety analysis arg, is
\* what getOrCreateToolAnalysis returns.
Assess ==
    /\ evaluation.fn = "assessRisks"
    /\ evaluation.pc = "called"
    /\ evaluation' = [fn |-> "assessRisks", pc |-> "done", arg |-> evaluation.arg,
                      ret |-> RisksOfAnalysis(
                                  [value |-> [userExplanation |-> "",
                                              safetyAnalysis |-> evaluation.arg],
                                   cache |-> llmAnalysisCache, llmFailed |-> FALSE])]
    /\ UNCHANGED <<toolSchemaCache, llmAnalysisCache, execVars, regVars, flowVars,
                   clock>>

NextAssessment == Assess

SpecAssessment == InitAssessment /\ [][NextAssessment]_vars

(***************************************************************************)
(* getOrCreateToolSelection, await by await: two identical requests are    *)
(* served at once over one cache store, whose get and set may fail.  The   *)
(* model answers a request with one and the same text whenever it answers. *)
(***************************************************************************)
SelectionCallers == {"a", "b"}
SelectionTools == NormalizeToolData(<<[name |-> "t1", schema |-> "v1"]>>, "s1")
SelectionTexts == {Answer_SelectT1, Answer_SelectNone}
CacheOutcomes == {"ok", "fails"}

\* `tool_selection:${userRequest}:${toolsHash}`
ToolSelectionKey(userRequest, availableTools) ==
    "tool_selection:" \o Join(userRequest) \o ":" \o ToolsHash(availableTools)
\* generateCacheKey('select_tool', userRequest, JSON.stringify(availableTools))
SelectToolKey(userRequest, availableTools) ==
    GenerateCacheKey("select_tool",
        Join(userRequest) \o ":" \o ToolsString(availableTools))

\* { tool: selection.selectedTool, reasoning: selection.reasoning }
SelectionOf(selection) == ToolSelectionResult([value |-> selection]).value
SelectionFallback == [tool |-> Null, reasoning |-> "Failed to select tool"]
NoSelection == [tool |-> Undefined, reasoning |-> ""]

\* A call of getOrCreateToolSelection that waits for its first cache lookup.
\* llm: what its call of the model came to; wrote: the value it stored under
\* the selection key; cacheFailed: a get or set of the store failed; missed:
\* its first lookup found nothing under the selection key.
SelectionCalled ==
    [pc |-> "get", value |-> NoSelection, llm |-> "none", wrote |-> NoSelection,
     cacheFailed |-> FALSE, missed |-> FALSE]

InitSelection ==
    /\ Constructed
    /\ evaluation \in {[fn |-> "getOrCreateToolSelection", pc |-> "called",
                        userRequest |-> request, text |-> text,
                        w |-> [c \in SelectionCallers |-> SelectionCalled]] :
                           request \in UserRequests, text \in SelectionTexts}

SelectionStep(c, call) == evaluation' = [evaluation EXCEPT !.w[c] = call]

\* const cachedSelection = await cacheService.getLLMAnalysis(cacheKey): it is
\* outside the try, a failure of the store leaves the method as an exception.
SelectionGet(c, store, cacheKey) ==
    /\ evaluation.fn = "getOrCreateToolSelection"
    /\ evaluation.w[c].pc = "get"
    /\ UNCHANGED llmAnalysisCache
    /\ SelectionStep(c,
         IF store = "fails"
           THEN [evaluation.w[c] EXCEPT !.pc = "raised", !.cacheFailed = TRUE]
         ELSE IF HasLLMAnalysis(llmAnalysisCache, cacheKey)
           THEN [evaluation.w[c] EXCEPT
                    !.pc = "returned",
                    !.value = GetLLMAnalysis(llmAnalysisCache, cacheKey)]
         ELSE [evaluation.w[c] EXCEPT !.pc = "select", !.missed = TRUE])

\* selectTool: const cached = await this.getCachedLLMResponse(cacheKey)
SelectToolGet(c, store, cacheKey) ==
    /\ evaluation.fn = "getOrCreateToolSelection"
    /\ evaluation.w[c].pc = "select"
    /\ UNCHANGED llmAnalysisCache
    /\ SelectionStep(c,
         IF store = "fails"
           THEN [evaluation.w[c] EXCEPT !.pc = "setFallback", !.cacheFailed = TRUE]
         ELSE IF HasLLMAnalysis(llmAnalysisCache, cacheKey)
           THEN [evaluation.w[c] EXCEPT
                    !.pc = "set",
                    !.value = SelectionOf(GetLLMAnalysis(llmAnalysisCache, cacheKey))]
         ELSE [evaluation.w[c] EXCEPT !.pc = "callLLM"])

\* selectTool: const selection = await this.callLLM(prompt, model)
SelectToolCallLLM(c, ok) ==
    /\ evaluation.fn = "getOrCreateToolSelection"
    /\ evaluation.w[c].pc = "callLLM"
    /\ UNCHANGED llmAnalysisCache
    /\ SelectionStep(c,
         IF ok THEN [evaluation.w[c] EXCEPT !.pc = "setCachedLLMResponse", !.llm = "ok"]
               ELSE [evaluation.w[c] EXCEPT !.pc = "setFallback", !.llm = "failed"])

\* selectTool: await this.setCachedLLMResponse(cacheKey, result); return result
SelectToolSet(c, store, cacheKey, result) ==
    /\ evaluation.fn = "getOrCreateToolSelection"
    /\ evaluation.w[c].pc = "setCachedLLMResponse"
    /\ llmAnalysisCache' =
         IF store = "fails" THEN llmAnalysisCache
         ELSE SetLLMAnalysis(llmAnalysisCache, cacheKey, result)
    /\ SelectionStep(c,
         IF store = "fails"
           THEN [evaluation.w[c] EXCEPT !.pc = "setFallback", !.cacheFailed = TRUE]
         ELSE [evaluation.w[c] EXCEPT !.pc = "set", !.value = SelectionOf(result)])

\* await cacheService.setLLMAnalysis(cacheKey, result); return result
SelectionSet(c, store, cacheKey) ==
    /\ evaluation.fn = "getOrCreateToolSelection"
    /\ evaluation.w[c].pc = "set"
    /\ llmAnalysisCache' =
         IF store = "fails" THEN llmAnalysisCache
         ELSE SetLLMAnalysis(llmAnalysisCache, cacheKey, evaluation.w[c].value)
    /\ SelectionStep(c,
         IF store = "fails"
           THEN [evaluation.w[c] EXCEPT !.pc = "setFallback", !.cacheFailed = TRUE]
         ELSE [evaluation.w[c] EXCEPT !.pc = "returned", !.wrote = evaluation.w[c].value])

\* catch: await cacheService.setLLMAnalysis(cacheKey, fallback); return fallback
SelectionSetFallback(c, store, cacheKey) ==
    /\ evaluation.fn = "getOrCreateToolSelection"
    /\ evaluation.w[c].pc = "setFallback"
    /\ llmAnalysisCache' =
         IF store = "fails" THEN llmAnalysisCache
         ELSE SetLLMAnalysis(llmAnalysisCache, cacheKey, SelectionFallback)
    /\ SelectionStep(c,
         IF store = "fails"
           THEN [evaluation.w[c] EXCEPT !.pc = "raised", !.cacheFailed = TRUE]
         ELSE [evaluation.w[c] EXCEPT !.pc = "returned", !.value = SelectionFallback,
                                      !.wrote = SelectionFallback])

SelectionLookup ==
    /\ \E c \in SelectionCallers, store \in CacheOutcomes :
          SelectionGet(c, store, ToolSelectionKey(evaluation.userRequest, SelectionTools))
    /\ UNCHANGED <<toolSchemaCache, execVars, regVars, flowVars, clock>>
SelectToolLookup ==
    /\ \E c \in SelectionCallers, store \in CacheOutcomes :
          SelectToolGet(c, store, SelectToolKey(evaluation.userRequest, SelectionTools))
    /\ UNCHANGED <<toolSchemaCache, execVars, regVars, flowVars, clock>>
SelectToolAsks ==
    /\ \E c \in SelectionCallers, ok \in BOOLEAN : SelectToolCallLLM(c, ok)
    /\ UNCHANGED <<toolSchemaCache, execVars, regVars, flowVars, clock>>
SelectToolStores ==
    /\ \E c \in SelectionCallers, store \in CacheOutcomes :
          SelectToolSet(c, store, SelectToolKey(evaluation.userRequest, SelectionTools),
                        SelectToolResult(evaluation.text))
    /\ UNCHANGED <<toolSchemaCache, execVars, regVars, flowVars, clock>>
SelectionStores ==
    /\ \E c \in SelectionCallers, store \in CacheOutcomes :
          SelectionSet(c, store, ToolSelectionKey(evaluation.userRequest, SelectionTools))
    /\ UNCHANGED <<toolSchemaCache, execVars, regVars, flowVars, clock>>
SelectionFallsBack ==
    /\ \E c \in SelectionCallers, store \in CacheOutcomes :
          SelectionSetFallback(c, store,
                               ToolSelectionKey(evaluation.userRequest, SelectionTools))
    /\ UNCHANGED <<toolSchemaCache, execVars, regVars, flowVars, clock>>

NextSelection ==
    \/ SelectionLookup
    \/ SelectToolLookup
    \/ SelectToolAsks
    \/ SelectToolStores
    \/ SelectionStores
    \/ SelectionFallsBack

SpecSelection == InitSelection /\ [][NextSelection]_vars

(***************************************************************************)
(* assessRisks for a plan that has no cached analysis, the model answering *)
(* the prompt of analyzeToolOutcome in every form: with and without the    *)
(* USER EXPLANATION and SAFETY ANALYSIS markers.                           *)
(***************************************************************************)
ExplanationParts ==
    {<<>>,
     <<"U", "S", "E", "R", " ", "E", "X", "P", "L", "A", "N", "A", "T",
       "I", "O", "N", ":", " ", "I", "t", " ", "r", "e", "a", "d", "s",
       "\n">>,
     <<"U", "S", "E", "R", " ", "E", "X", "P", "L", "A", "N", "A", "T",
       "I", "O", "N", ":", " ", "I", "t", " ", "d", "e", "l", "e", "t",
       "e", "s", "\n">>,
     <<"I", "t", " ", "s", "a", "v", "e", "s", " ", "a", " ", "f", "i",
       "l", "e", "\n">>,
     <<"E", "x", "p", "l", "a", "n", "a", "t", "i", "o", "n", ":", " ",
       "i", "t", " ", "w", "r", "i", "t", "e", "s", "\n">>}
SafetyParts ==
    {<<>>,
     <<"S", "a", "f", "e", "t", "y", " ", "a", "n", "a", "l", "y", "s",
       "i", "s", ":", " ", "W", "i", "l", "l", " ", "w", "r", "i", "t", "e">>,
     <<"S", "a", "f", "e", "t", "y", ":", " ", "d", "e", "l", "e", "t",
       "e", "s", " ", "f", "i", "l", "e", "s">>,
     <<"S", "A", "F", "E", "T", "Y", " ", "A", "N", "A", "L", "Y", "S",
       "I", "S", ":", " ", " ">>}
        \cup {SafetyAnalysisMarker \o <<" ", "I", "t", " ">> \o word :
                  word \in SafetyWords}
OutcomeAnswers ==
    {explanation \o safety : explanation \in ExplanationParts, safety \in SafetyParts}

InitOutcome ==
    /\ Constructed
    /\ evaluation \in {[fn |-> "analyzeToolOutcome", pc |-> "called", arg |-> text,
                        ret |-> [risks |-> <<>>, shouldBlock |-> FALSE]] :
                           text \in OutcomeAnswers}

\* assessRisks('t1', {}) with nothing cached: getOrCreateToolAnalysis calls
\* analyzeToolOutcome, the model answers arg, and both caches keep the result.
AssessOutcome ==
    /\ evaluation.fn = "analyzeToolOutcome"
    /\ evaluation.pc = "called"
    /\ \E riskAssessment \in {AssessRisks(llmAnalysisCache, "t1", EmptyObject,
                                           LlmSays(evaluation.arg))} :
          /\ evaluation' = [evaluation EXCEPT
                               !.pc = "done",
                               !.ret = [risks |-> riskAssessment.risks,
                                        shouldBlock |-> riskAssessment.shouldBlock]]
          /\ llmAnalysisCache' = riskAssessment.cache
    /\ UNCHANGED <<toolSchemaCache, execVars, regVars, flowVars, clock>>

NextOutcome == AssessOutcome

SpecOutcome == InitOutcome /\ [][NextOutcome]_vars

(***************************************************************************)
(* findToolsByCapability applied to search terms, to what the vector       *)
(* query yields and to what getAllTools() returns.                         *)
(***************************************************************************)
\* tool.capabilities.some(cap => cap.toLowerCase().includes(searchTerm))
SomeCapability(capabilities, searchTerm) ==
    \E i \in 1..Len(capabilities) : Includes(ToLowerCase(capabilities[i]), searchTerm)

\* The test of the filter of findToolsByCapability: a tool that has an array
\* of capabilities is decided by it alone; name, description and category
\* are looked at for the other tools.
MatchesCapability(tool, searchTerm) ==
    IF tool.capabilities.t = "array"
      THEN SomeCapability(tool.capabilities.v, searchTerm)
    ELSE \/ (tool.name # <<>> /\ Includes(ToLowerCase(tool.name), searchTerm))
         \/ (tool.description # <<>>
                /\ Includes(ToLowerCase(tool.description), searchTerm))
         \/ (tool.category # <<>> /\ Includes(ToLowerCase(tool.category), searchTerm))

\* allTools.filter(tool => ...)
RECURSIVE FilterByCapability(_, _)
FilterByCapability(allTools, searchTerm) ==
    IF allTools = <<>> THEN <<>>
    ELSE (IF MatchesCapability(Head(allTools), searchTerm)
            THEN <<Head(allTools)>> ELSE <<>>)
           \o FilterByCapability(Tail(allTools), searchTerm)

\* findToolsByCapability(capability), the vector query yielding
\* semanticResults and getAllTools() returning allTools.
FindToolsByCapability(capability, semanticResults, allTools) ==
    IF Len(semanticResults) > 0 THEN semanticResults
    ELSE FilterByCapability(allTools, ToLowerCase(capability))

\* Normalised tool descriptors: capabilities is the array the server listed,
\* [] when it listed none, or whatever else the server put there.
Tool_ReadFile ==
    [name |-> <<"r", "e", "a", "d", "_", "f", "i", "l", "e">>,
     description |-> <<"R", "e", "a", "d", "s", " ", "d", "i", "s", "k">>,
     category |-> <<"f", "i", "l", "e", "s">>,
     capabilities |-> Array(<< <<"R", "e", "a", "d">>, <<"F", "i", "l", "e", "s">> >>)]
Tool_Search ==
    [name |-> <<"s", "e", "a", "r", "c", "h">>,
     description |-> <<"F", "i", "n", "d", "s", " ", "t", "e", "x", "t">>,
     category |-> <<"g", "e", "n", "e", "r", "a", "l">>,
     capabilities |-> Array(<<>>)]
Tool_Zip ==
    [name |-> <<"z", "i", "p">>,
     description |-> <<"P", "a", "c", "k", "s">>,
     category |-> <<"f", "i", "l", "e", "s">>,
     capabilities |-> Str("archive")]
Tool_Mail ==
    [name |-> <<"m", "a", "i", "l">>,
     description |-> <<"S", "e", "n", "d", "s">>,
     category |-> <<"g", "e", "n", "e", "r", "a", "l">>,
     capabilities |-> Array(<< <<"S", "e", "a", "r", "c", "h", " ", "i", "n", "b", "o", "x">> >>)]
CapabilityTools == {Tool_ReadFile, Tool_Search, Tool_Zip, Tool_Mail}
CapabilityToolLists ==
    {<<>>} \cup {<<t>> : t \in CapabilityTools}
        \cup {<<t, u>> : t \in CapabilityTools, u \in CapabilityTools}
CapabilityTerms ==
    {<<"r", "e", "a", "d">>, <<"S", "E", "A", "R", "C", "H">>,
     <<"f", "i", "l", "e", "s">>, <<"F", "i", "n", "d">>, <<"x", "m", "l">>}
SemanticResults == {<<>>, <<Tool_Mail>>}

InitCapability ==
    /\ Constructed
    /\ evaluation \in {[fn |-> "findToolsByCapability", pc |-> "called",
                        arg |-> capability, semanticResults |-> semantic,
                        allTools |-> tools, ret |-> <<>>] :
                           capability \in CapabilityTerms,
                           semantic \in SemanticResults,
                           tools \in CapabilityToolLists}

FindTools ==
    /\ evaluation.fn = "findToolsByCapability"
    /\ evaluation.pc = "called"
    /\ evaluation' = [evaluation EXCEPT
                         !.pc = "done",
                         !.ret = FindToolsByCapability(evaluation.arg,
                                     evaluation.semanticResults, evaluation.allTools)]
    /\ UNCHANGED <<toolSchemaCache, llmAnalysisCache, execVars, regVars, flowVars,
                   clock>>

NextCapability == FindTools

SpecCapability == InitCapability /\ [][NextCapability]_vars

(***************************************************************************)
(* The memoized sub-decisions of DynamicFlow called twice with the same    *)
(* arguments, time passing in between: the answer of the model to the      *)
(* first call and its answer to the second are independent inputs.         *)
(***************************************************************************)
MemoTickSteps == {TTL_LLM_ANALYSIS \div 2}
MemoTool == "t1"
MemoReasoning == "fits"

\* getOrCreateParameterExtraction(toolName, userRequest, toolReasoning) from
\* its lookup of the cache on.
MemoizedParameterExtraction(cache, toolName, userRequest, toolReasoning, allTools, llm) ==
    IF HasLLMAnalysis(cache, ParameterExtractionKey(toolName, userRequest, toolReasoning))
      THEN [threw |-> FALSE, error |-> "", cache |-> cache,
            value |-> GetLLMAnalysis(cache,
                          ParameterExtractionKey(toolName, userRequest, toolReasoning))]
    ELSE GetOrCreateParameterExtraction(cache, toolName, userRequest, toolReasoning,
                                        allTools, llm)

\* The fallback of each sub-decision.
MemoFallback(sub) ==
    CASE sub = "selection" -> [tool |-> Null, reasoning |-> "Failed to select tool"]
      [] sub = "analysis" ->
           [userExplanation |-> "Expected to execute " \o MemoTool
                                    \o " with provided parameters",
            safetyAnalysis |-> FallbackSafetyAnalysis]
      [] sub = "extraction" -> [parameters |-> EmptyObject, confidence |-> 0]
      [] sub = "modification" ->
           [changes |-> EmptyObject, reasoning |-> "Failed to analyze modifications"]

\* The key of each sub-decision in the llm:analysis: namespace.
MemoKey(sub, userRequest, parameters) ==
    CASE sub = "selection" -> ToolSelectionKey(userRequest, SelectionTools)
      [] sub = "analysis" -> MemoTool \o ":" \o JsonStringify(parameters)
      [] sub = "extraction" ->
           ParameterExtractionKey(MemoTool, userRequest, MemoReasoning)
      [] sub = "modification" ->
           "modification:" \o "change it" \o ":" \o MemoTool \o ":"
               \o JsonStringify(parameters)

\* Two calls of one sub-decision ahead: first and second are what the model
\* comes to in each, since the time that passes between them.
MemoCalled(sub, parameters, first, second) ==
    [fn |-> "getOrCreate", sub |-> sub, pc |-> "first", parameters |-> parameters,
     llm |-> <<first, second>>, since |-> 0,
     ret |-> <<MemoFallback(sub), MemoFallback(sub)>>]

InitMemo ==
    /\ Constructed
    /\ \/ evaluation \in {MemoCalled("selection", EmptyObject, first, second) :
                              first \in SelectionAnswers, second \in SelectionAnswers}
       \/ evaluation \in {MemoCalled("analysis", parameters, first, second) :
                              parameters \in Parameters,
                              first \in AnalysisAnswers, second \in AnalysisAnswers}
       \/ evaluation \in {MemoCalled("extraction", EmptyObject, first, second) :
                              first \in ExtractionAnswers, second \in ExtractionAnswers}
       \/ evaluation \in {MemoCalled("modification", parameters, first, second) :
                              parameters \in Parameters,
                              first \in ModificationAnswers,
                              second \in ModificationAnswers}

\* The call that is due: 1 for the first, 2 for the second.
MemoDue == IF evaluation.pc = "first" THEN 1 ELSE 2

\* The call has returned value and left the cache as cache.
MemoReturns(value, cache) ==
    /\ evaluation' = [evaluation EXCEPT
                         !.pc = IF @ = "first" THEN "second" ELSE "done",
                         !.ret[MemoDue] = value]
    /\ llmAnalysisCache' = cache

MemoSelects ==
    /\ evaluation.fn = "getOrCreate"
    /\ evaluation.sub = "selection"
    /\ evaluation.pc \in {"first", "second"}
    /\ \E toolSelection \in {GetOrCreateToolSelection(llmAnalysisCache, Request_Show,
                                  SelectionTools, evaluation.llm[MemoDue])} :
          MemoReturns(toolSelection.value, toolSelection.cache)
    /\ UNCHANGED <<toolSchemaCache, execVars, regVars, flowVars, clock>>

MemoAnalyses ==
    /\ evaluation.fn = "getOrCreate"
    /\ evaluation.sub = "analysis"
    /\ evaluation.pc \in {"first", "second"}
    /\ \E analysis \in {GetOrCreateToolAnalysis(llmAnalysisCache, MemoTool,
                             evaluation.parameters, evaluation.llm[MemoDue])} :
          MemoReturns(analysis.value, analysis.cache)
    /\ UNCHANGED <<toolSchemaCache, execVars, regVars, flowVars, clock>>

MemoExtracts ==
    /\ evaluation.fn = "getOrCreate"
    /\ evaluation.sub = "extraction"
    /\ evaluation.pc \in {"first", "second"}
    /\ \E extraction \in {MemoizedParameterExtraction(llmAnalysisCache, MemoTool,
                               Request_Show, MemoReasoning, SelectionTools,
                               evaluation.llm[MemoDue])} :
          MemoReturns(extraction.value, extraction.cache)
    /\ UNCHANGED <<toolSchemaCache, execVars, regVars, flowVars, clock>>

MemoModifies ==
    /\ evaluation.fn = "getOrCreate"
    /\ evaluation.sub = "modification"
    /\ evaluation.pc \in {"first", "second"}
    /\ \E analysis \in {GetOrCreateModificationAnalysis(llmAnalysisCache, "change it",
                             MemoTool, evaluation.parameters, evaluation.llm[MemoDue])} :
          MemoReturns(analysis.value, analysis.cache)
    /\ UNCHANGED <<toolSchemaCache, execVars, regVars, flowVars, clock>>

\* Time passes between the two calls.
MemoClock ==
    /\ evaluation.fn = "getOrCreate"
    /\ evaluation.pc = "second"
    /\ clock < MaxClock
    /\ \E d \in MemoTickSteps :
          /\ Tick(d)
          /\ evaluation' = [evaluation EXCEPT !.since = @ + d]
    /\ clock' = clock + 1

NextMemo ==
    \/ MemoSelects
    \/ MemoAnalyses
    \/ MemoExtracts
    \/ MemoModifies
    \/ MemoClock

SpecMemo == InitMemo /\ [][NextMemo]_vars

(***************************************************************************)
(* getAllTools of one registry called by several callers at once: a call   *)
(* that fetches is in flight until the tool servers have answered, and     *)
(* other calls are served meanwhile.  The cache lookups of a call take no   *)
(* time on the scale of the model.  Another provider's registry, freshly    *)
(* constructed, works on the same cache store.                              *)
(***************************************************************************)
DiscoveryCallers == {"a", "b"}
DiscoveryTickSteps == {1, discoveryCooldown + 1}
Never == 0 - (discoveryCooldown + 1)

\* A call of getAllTools.  path: how it ended; tools: what it returned;
\* cached: what the cache held for all servers when it answered; fetched: it
\* contacted tool servers; sincePrevious: the time between the discovery
\* attempt before it and its start.
DiscoveryIdle ==
    [pc |-> "idle", path |-> "", tools |-> <<>>, cached |-> <<>>,
     fetched |-> FALSE, sincePrevious |-> 0]
DiscoveryAnswer(path, tools, cached, fetched, since) ==
    [pc |-> "returned", path |-> path, tools |-> tools, cached |-> cached,
     fetched |-> fetched, sincePrevious |-> since]

InitDiscovery ==
    /\ Constructed
    /\ evaluation = [fn |-> "getAllTools", pc |-> "called", now |-> 0,
                     lastAttemptAt |-> Never, rounds |-> <<>>,
                     w |-> [c \in DiscoveryCallers |-> DiscoveryIdle]]

\* getAllTools() up to its fetch: the cooldown check, the stamp of the attempt
\* (no await lies between the two) and the cached lists of the servers that
\* are not blocked; with none of them the fetch round starts.
GetAllToolsBegin(c, r, since) ==
    /\ evaluation.fn = "getAllTools"
    /\ evaluation.w[c].pc # "fetching"
    /\ timeSinceLastAttempt' =
         IF ShouldAttemptDiscovery(r) THEN [timeSinceLastAttempt EXCEPT ![r] = 0]
         ELSE timeSinceLastAttempt
    /\ evaluation' =
         [evaluation EXCEPT
            !.lastAttemptAt = IF ShouldAttemptDiscovery(r) THEN evaluation.now ELSE @,
            !.rounds = IF /\ ShouldAttemptDiscovery(r)
                          /\ CachedFrom(toolDiscoveryCache, Blocked(r), 1) = <<>>
                         THEN Append(@, evaluation.now) ELSE @,
            !.w[c] =
               IF ~ShouldAttemptDiscovery(r)
                 THEN DiscoveryAnswer("cooldown", GetCachedTools(toolDiscoveryCache),
                                      GetCachedTools(toolDiscoveryCache), FALSE, since)
               ELSE IF CachedFrom(toolDiscoveryCache, Blocked(r), 1) # <<>>
                 THEN DiscoveryAnswer("cached",
                                      CachedFrom(toolDiscoveryCache, Blocked(r), 1),
                                      GetCachedTools(toolDiscoveryCache), FALSE, since)
               ELSE [DiscoveryIdle EXCEPT !.pc = "fetching", !.sincePrevious = since]]
    /\ UNCHANGED <<toolDiscoveryCache, serverErrorCounts>>

\* getAllTools() from the answers of the tool servers on: what
\* fetchToolsFromMCPServer stores and counts, and the tools it returns, or
\* the cached ones when it throws.
GetAllToolsRespond(c, r, resp) ==
    /\ evaluation.fn = "getAllTools"
    /\ evaluation.w[c].pc = "fetching"
    /\ \A server \in FetchContacted(r) :
         resp[server] # "ok" => serverErrorCounts[r][server].count < MaxErrorCount
    /\ toolDiscoveryCache' = FetchCache(r, resp)
    /\ serverErrorCounts' = [serverErrorCounts EXCEPT ![r] = FetchErrorCounts(r, resp)]
    /\ evaluation' =
         [evaluation EXCEPT !.w[c] =
            IF FetchThrows(r, resp)
              THEN DiscoveryAnswer("fallback", GetCachedTools(FetchCache(r, resp)),
                                   GetCachedTools(FetchCache(r, resp)), TRUE,
                                   evaluation.w[c].sincePrevious)
              ELSE DiscoveryAnswer("fetched", FetchedFrom(FetchSucceeded(r, resp), 1),
                                   GetCachedTools(FetchCache(r, resp)), TRUE,
                                   evaluation.w[c].sincePrevious)]
    /\ UNCHANGED timeSinceLastAttempt

\* The first getAllTools() of a registry that another provider has just
\* constructed: no server is blocked for it and no cooldown runs; it answers
\* from the cache store, or fetches and stores what the servers list.
PeerGetAllTools(resp) ==
    /\ evaluation.fn = "getAllTools"
    /\ toolDiscoveryCache' =
         IF GetCachedTools(toolDiscoveryCache) # <<>> THEN toolDiscoveryCache
         ELSE [server \in Servers |->
                  IF resp[server] = "ok"
                    THEN [tools |-> NormalizeToolData(serverTools[server], server),
                          ttl |-> TTL_TOOL_DISCOVERY]
                    ELSE toolDiscoveryCache[server]]
    /\ UNCHANGED <<timeSinceLastAttempt, serverErrorCounts, evaluation>>

DiscoveryBegins ==
    /\ \E c \in DiscoveryCallers :
          GetAllToolsBegin(c, FlowRegistry, evaluation.now - evaluation.lastAttemptAt)
    /\ UNCHANGED <<toolSchemaCache, llmAnalysisCache, execVars, serverTools, lastOp,
                   lastGet, fetchLog, flowVars, clock>>
DiscoveryResponds ==
    /\ \E c \in DiscoveryCallers, resp \in [Servers -> FetchOutcomes] :
          GetAllToolsRespond(c, FlowRegistry, resp)
    /\ UNCHANGED <<toolSchemaCache, llmAnalysisCache, execVars, serverTools, lastOp,
                   lastGet, fetchLog, flowVars, clock>>
PeerDiscovers ==
    /\ \E resp \in [Servers -> FetchOutcomes] : PeerGetAllTools(resp)
    /\ UNCHANGED <<toolSchemaCache, llmAnalysisCache, execVars, serverTools, lastOp,
                   lastGet, fetchLog, flowVars, clock>>
DiscoveryClock ==
    /\ evaluation.fn = "getAllTools"
    /\ clock < MaxClock
    /\ \E d \in DiscoveryTickSteps :
          /\ Tick(d)
          /\ evaluation' = [evaluation EXCEPT !.now = @ + d]
    /\ clock' = clock + 1

NextDiscovery ==
    \/ DiscoveryBegins
    \/ DiscoveryResponds
    \/ PeerDiscovers
    \/ DiscoveryClock

SpecDiscovery == InitDiscovery /\ [][NextDiscovery]_vars

(***************************************************************************)
(* Properties of the Execution Tracker (SpecExecution).                    *)
(***************************************************************************)

\* C3: once getExecutionStatus(id) has answered completed or cancelled, every
\* later answer for id, while its records are retained, is that same state.
C3_TerminalStateIsSticky ==
    observed.prev \in {"completed", "cancelled"} => observed.cur = observed.prev

\* C4: while the cancelled record stored by cancelExecution(id) is retained,
\* getExecutionStatus(id) answers cancelled, never running or completed.
C4_CancelledWins ==
    observed.cancelled => observed.cur = "cancelled"

\* C5: an executeTool for a (tool, parameters) pair that an earlier call
\* completed less than a result time-to-live ago does not contact the tool
\* server and returns completed with the result of the earlier call.
C5_SecondCallServedFromCache ==
    \A c \in Callers :
        calls[c].expected.live =>
            /\ ~calls[c].contacted
            /\ calls[c].pc = "returned" =>
                  /\ calls[c].ret.status = "completed"
                  /\ calls[c].ret.result = calls[c].expected.result

(***************************************************************************)
(* Properties of the Tool Registry (SpecRegistry).                         *)
(***************************************************************************)
HasDescriptor(tools, toolName, server, schema) ==
    \E i \in 1..Len(tools) :
        tools[i] = [name |-> toolName, schema |-> schema, server |-> server]

\* C8: a getAllTools() that immediately follows a refreshToolSchema(t, s)
\* that found t returns a tool set holding t on s with the refreshed schema.
C8_RefreshedToolListed ==
    (lastOp.kind = "getAllTools" /\ lastOp.afterRefresh) =>
        HasDescriptor(lastOp.tools, lastOp.tool, lastOp.server, lastOp.schema)

C1_FailsClosed ==
    (trace.assessed /\ trace.llmFailed) =>
        /\ trace.shouldBlock
        /\ trace.risks = <<"Unable to assess safety">>

\* C2: executeTool is not called for a plan that assessRisks blocked in this
\* run unless the consent request for that plan was approved before.
C2_NoBlockedPlanWithoutConsent ==
    \A plan \in trace.executed :
        plan \in trace.assessedBlocked => plan \in trace.approved

\* C2 witness: a plan that was blocked, approved and then executed.
C2_Witness ==
    \E plan \in trace.executed :
        plan \in trace.assessedBlocked /\ plan \in trace.approved

\* The stop vocabulary, and the texts that hold a word of it whatever the case.
StopVocabulary ==
    { <<"s", "t", "o", "p">>, <<"c", "a", "n", "c", "e", "l">>,
      <<"q", "u", "i", "t">>, <<"e", "x", "i", "t">> }
HasStopWord(text) ==
    \E word \in StopVocabulary : Includes(ToLowerCase(text), word)

\* C6: a request that holds a word of the stop vocabulary, in whatever case,
\* is answered with the stop acknowledgement, and nothing is invoked for it:
\* no discovery, selection, extraction, risk assessment or execution.
C6_StopWordStopsEverything ==
    (flow.pc # "idle" /\ HasStopWord(flow.originalUserRequest)) =>
        /\ flow.pc = "returned"
        /\ flow.ret = StopMessage
        /\ trace.invoked = {}

\* C6 witness: a request with the stop word in upper case has been answered.
C6_Witness ==
    /\ flow.pc = "returned"
    /\ flow.originalUserRequest = Request_Stop
    /\ flow.ret = StopMessage

\* C7: when the selection of the model is none, processUserRequest returns
\* the no-tool message, and neither extraction, risk assessment, consent
\* request nor execution is performed.
C7_NoneSelectsNoTool ==
    (flow.pc # "idle" /\ trace.selected = "none") =>
        /\ flow.pc = "returned"
        /\ flow.ret = NoToolMessage
        /\ trace.invoked \subseteq {"discovery", "selection"}

\* C11: a server's breaker is open exactly when the fetches of getAllTools()
\* to it have failed at least 3 times since the last one that succeeded and
\* the last failure is less than 60 s old; a fetch that succeeds leaves the
\* server with an error count of zero; getAllTools() fetches from no server
\* whose breaker is open.
C11_BreakerOpenExactly ==
    /\ \A r \in Registries, server \in Servers :
          IsServerBlocked(r, server) <=>
              /\ fetchLog[r][server].failures >= 3
              /\ fetchLog[r][server].sinceFailure < circuitBreakerTimeout
    /\ lastOp.kind = "getAllTools" =>
          /\ \A server \in lastOp.succeeded :
                serverErrorCounts[lastOp.registry][server].count = 0
          /\ lastOp.fetched \cap lastOp.blocked = {}

\* C11 witness: getAllTools() has skipped a server whose breaker is open and
\* fetched from another one.
C11_Witness ==
    /\ lastOp.kind = "getAllTools"
    /\ lastOp.blocked # {}
    /\ lastOp.fetched # {}
    /\ \E server \in lastOp.blocked : fetchLog[lastOp.registry][server].failures >= 3

C14_ModificationEndsWithDecision ==
    (trace.modified /\ flow.pc \in {"returned", "raised"}) =>
        trace.decision \in {"approved", "reject"}

\* C15: processUserRequest never throws the failure of a call of the model.
C15_NoModelFailureReachesCaller ==
    flow.pc = "raised" => flow.error # "LLM operation failed"

\* C16: a consent.getConsent that throws, for the first plan or for a
\* modified one, ends processUserRequest with that error thrown.
C16_ConsentFailurePropagates ==
    trace.consentThrew => flow.pc = "raised"

(***************************************************************************)
(* Properties of the Execution Tracker (SpecExecution), continued.         *)
(***************************************************************************)

\* C17: an executeTool whose tool server does not answer with success
\* returns status failed with an error, and in doing so writes nothing to
\* the status store and nothing to the result cache; getExecutionStatus for
\* its id, unless the id was cancelled, finds nothing.
C17_FailedLeavesNoRecord ==
    /\ [][\A c \in Callers :
            (calls[c].pc = "fetching" /\ calls'[c].pc = "returned"
                /\ calls'[c].ret.status = "failed") =>
                /\ calls'[c].ret.error # ""
                /\ execStore' = execStore
                /\ toolSchemaCache' = toolSchemaCache]_vars
    /\ [](\A c \in Callers :
            (calls[c].pc = "returned" /\ calls[c].ret.status = "failed"
                /\ execStore[<<calls[c].executionId, "cancelled">>].ttl = 0) =>
                ExecutionStatus(execStore, calls[c].executionId).status = "not_found")

\* C17 witness: getExecutionStatus was asked for the id of a failed call and
\* answered not_found.
C17_Witness ==
    \E c \in Callers :
        /\ calls[c].pc = "returned"
        /\ calls[c].ret.status = "failed"
        /\ observed.executionId = calls[c].executionId
        /\ observed.cur = "not_found"

(***************************************************************************)
(* Properties of validateToolSchema (SpecValidation).                      *)
(***************************************************************************)

\* C18: validateToolSchema(tool) throws for no tool, null and undefined
\* included, and returns false for every descriptor without a name or
\* without a description.
C18_ValidateNeverRaises ==
    (evaluation.fn = "validateToolSchema" /\ evaluation.pc = "done") =>
        /\ ~evaluation.ret.threw
        /\ (\/ ~Truthy(Get(evaluation.arg, "name"))
            \/ ~Truthy(Get(evaluation.arg, "description")))
              => ~evaluation.ret.value

\* What the specification of validateToolSchema asks of a descriptor.
Present(x) == x.t # "undefined"
IsKeyOf(k, properties) == properties.t = "object" /\ k \in DOMAIN properties.v
WellFormed(tool, inputSchema) ==
    /\ Truthy(Get(tool, "name"))
    /\ Truthy(Get(tool, "description"))
    /\ Present(inputSchema) =>
          /\ Get(inputSchema, "properties").t = "object"
          /\ Present(Get(inputSchema, "required")) =>
                /\ Get(inputSchema, "required").t = "array"
                /\ \A i \in 1..Len(Get(inputSchema, "required").v) :
                      IsKeyOf(Get(inputSchema, "required").v[i],
                              Get(inputSchema, "properties"))

\* C19: validateToolSchema(tool) returns true exactly for the descriptors
\* that have a name and a description and whose schema.inputSchema, if there
\* is one, has an object as properties and, if it has a required, an array
\* of keys of properties.
C19_TrueExactlyWhenWellFormed ==
    (evaluation.fn = "validateToolSchema" /\ evaluation.pc = "done"
        /\ evaluation.arg.t = "object") =>
        (evaluation.ret.value <=>
             WellFormed(evaluation.arg,
                        Get(Get(evaluation.arg, "schema"), "inputSchema")))

(***************************************************************************)
(* Properties of assessRisks (SpecAssessment).                             *)
(***************************************************************************)
Mentions(text, word) == Includes(ToLowerCase(text), word)
Lists(risks, risk) == \E i \in 1..Len(risks) : risks[i] = risk
Harmless(text) ==
    \A word \in {<<"w", "r", "i", "t", "e">>, <<"m", "o", "d", "i", "f", "y">>,
                  <<"d", "e", "l", "e", "t", "e">>,
                  <<"s", "e", "n", "s", "i", "t", "i", "v", "e">>,
                  <<"s", "y", "s", "t", "e", "m">>} : ~Mentions(text, word)

\* C20: a safety analysis that mentions write, modify, delete or sensitive,
\* in any case, gives shouldBlock=true and the risk that goes with the word;
\* the risks are exactly 'Low risk operation' with shouldBlock=false if and
\* only if it mentions none of write, modify, delete, sensitive, system.
C20_KeywordsDecideRisk ==
    (evaluation.fn = "assessRisks" /\ evaluation.pc = "done") =>
        /\ (\/ Mentions(evaluation.arg, <<"w", "r", "i", "t", "e">>)
            \/ Mentions(evaluation.arg, <<"m", "o", "d", "i", "f", "y">>)) =>
              /\ evaluation.ret.shouldBlock
              /\ Lists(evaluation.ret.risks, "This operation may modify your data")
        /\ Mentions(evaluation.arg, <<"d", "e", "l", "e", "t", "e">>) =>
              /\ evaluation.ret.shouldBlock
              /\ Lists(evaluation.ret.risks, "This operation may delete data")
        /\ Mentions(evaluation.arg, <<"s", "e", "n", "s", "i", "t", "i", "v", "e">>) =>
              /\ evaluation.ret.shouldBlock
              /\ Lists(evaluation.ret.risks,
                       "This operation may access sensitive information")
        /\ (evaluation.ret.risks = <<"Low risk operation">>
                /\ ~evaluation.ret.shouldBlock) <=> Harmless(evaluation.arg)

\* C20 witness: an analysis that mentions a deletion in capital letters was
\* assessed.
C20_Witness ==
    /\ evaluation.fn = "assessRisks"
    /\ evaluation.pc = "done"
    /\ Mentions(evaluation.arg, <<"d", "e", "l", "e", "t", "e">>)
    /\ ~Includes(evaluation.arg, <<"d", "e", "l", "e", "t", "e">>)
    /\ evaluation.ret.shouldBlock

(***************************************************************************)
(* Properties of getOrCreateToolSelection (SpecSelection).                 *)
(***************************************************************************)

\* C21: a call of getOrCreateToolSelection during which a get or a set of
\* the cache store failed does not end in an exception, and when its call of
\* the model succeeded it returns what the model selected, not the fallback.
C21_CacheFailureIsHarmless ==
    evaluation.fn = "getOrCreateToolSelection" =>
        \A c \in SelectionCallers :
            evaluation.w[c].cacheFailed =>
                /\ evaluation.w[c].pc # "raised"
                /\ (evaluation.w[c].pc = "returned" /\ evaluation.w[c].llm = "ok") =>
                      evaluation.w[c].value = SelectionOf(SelectToolResult(evaluation.text))

\* C29: when both calls missed the selection key and both stored a value
\* under it, no get or set of the store failing, they stored the same value,
\* and that value is the one left under the key.
C29_WritersAgree ==
    evaluation.fn = "getOrCreateToolSelection" =>
        ((\A c \in SelectionCallers :
              /\ evaluation.w[c].pc = "returned"
              /\ evaluation.w[c].missed
              /\ ~evaluation.w[c].cacheFailed
              /\ evaluation.w[c].wrote # NoSelection)
          => \A c \in SelectionCallers :
                 /\ HasLLMAnalysis(llmAnalysisCache,
                        ToolSelectionKey(evaluation.userRequest, SelectionTools))
                 /\ GetLLMAnalysis(llmAnalysisCache,
                        ToolSelectionKey(evaluation.userRequest, SelectionTools))
                      = evaluation.w[c].wrote)

(***************************************************************************)
(* Properties of concurrent getAllTools calls (SpecDiscovery).             *)
(***************************************************************************)

\* C22: a getAllTools() that starts less than 30 s after the previous
\* discovery attempt contacts no tool server and returns what the cache holds
\* for all servers; and of the fetch rounds that the calls of one registry
\* start, whatever their interleaving, no two start less than 30 s apart.
C22_OneRoundPerCooldown ==
    evaluation.fn = "getAllTools" =>
        /\ \A c \in DiscoveryCallers :
              (evaluation.w[c].pc # "idle"
                  /\ evaluation.w[c].sincePrevious < discoveryCooldown) =>
                 /\ evaluation.w[c].pc = "returned"
                 /\ ~evaluation.w[c].fetched
                 /\ evaluation.w[c].tools = evaluation.w[c].cached
        /\ \A i, j \in 1..Len(evaluation.rounds) :
              i < j => evaluation.rounds[j] - evaluation.rounds[i] >= discoveryCooldown

\* C22 witness: a second fetch round is in flight, and a call that came
\* meanwhile, within the cooldown, has been answered.
C22_Witness ==
    /\ evaluation.fn = "getAllTools"
    /\ Len(evaluation.rounds) >= 2
    /\ \E c, other \in DiscoveryCallers :
          /\ evaluation.w[c].pc = "fetching"
          /\ evaluation.w[other].pc = "returned"
          /\ evaluation.w[other].sincePrevious < discoveryCooldown

\* C23: a getAllTools() that answers from the cache returns the cached tools
\* of all configured servers, be it within the cooldown or past it, and
\* whatever servers are blocked.
C23_CachedAnswerIsTheUnion ==
    evaluation.fn = "getAllTools" =>
        \A c \in DiscoveryCallers :
            (evaluation.w[c].pc = "returned"
                /\ evaluation.w[c].path \in {"cooldown", "cached", "fallback"}) =>
               evaluation.w[c].tools = evaluation.w[c].cached

(***************************************************************************)
(* Properties of the Orchestrator (Spec), third part.                      *)
(***************************************************************************)

\* C24: the plan that executeModifiedPlan assesses, after the user asked for
\* a change of the plan shown to them, has the tool of that plan, and for
\* parameters those of that plan overridden by the analysed changes.
C24_ModifiedPlanKeepsToolAndParameters ==
    (trace.modified /\ trace.assessedIn = "executeModifiedPlan") =>
        /\ trace.reassessed.tool = trace.presented.tool
        /\ trace.reassessed.parameters =
               Spread(trace.presented.parameters, trace.changes)

C26_RunningWhileInvoked ==
    \A c \in Callers :
        (calls[c].pc = "fetching" /\ observed.executionId = calls[c].executionId) =>
            observed.cur = "running"

(***************************************************************************)
(* Properties of the Orchestrator (Spec), fourth part.                     *)
(***************************************************************************)

\* C27: within a request no stage has started unless the stages before it
\* have delivered: the selection follows the discovery, the extraction the
\* selection of something, the risk assessment the extraction, the consent
\* request the risk assessment, the execution the risk assessment of the very
\* plan it runs, and the formatting the return of executeTool.
C27_StagesInOrder ==
    /\ "selection" \in trace.invoked => "discovery" \in trace.invoked
    /\ "extraction" \in trace.invoked =>
          ("selection" \in trace.invoked /\ trace.selected # "")
    /\ "risk" \in trace.invoked => "extraction" \in trace.invoked
    /\ "consent" \in trace.invoked => ("risk" \in trace.invoked /\ trace.assessed)
    /\ "execution" \in trace.invoked =>
          ("risk" \in trace.invoked /\ trace.executed \subseteq trace.assessedPlans)
    /\ "format" \in trace.invoked =>
          ("execution" \in trace.invoked /\ calls["flow"].pc = "returned")

\* C27 witness: a request went through every stage, consent included.
C27_Witness ==
    /\ flow.pc = "returned"
    /\ trace.invoked =
          {"discovery", "selection", "extraction", "risk", "consent", "execution",
           "format"}

(***************************************************************************)
(* Properties of findToolsByCapability (SpecCapability).                   *)
(***************************************************************************)
\* The term is, in whatever case, part of the text.
HasTerm(text, term) == Includes(ToLowerCase(text), ToLowerCase(term))
\* The term is part of the name, the description, the category or an entry
\* of the capabilities of the tool.
AboutTerm(tool, term) ==
    \/ HasTerm(tool.name, term)
    \/ HasTerm(tool.description, term)
    \/ HasTerm(tool.category, term)
    \/ /\ tool.capabilities.t = "array"
       /\ \E i \in 1..Len(tool.capabilities.v) : HasTerm(tool.capabilities.v[i], term)
\* The tools of a list that are about the term, in their order.
RECURSIVE ToolsAbout(_, _)
ToolsAbout(tools, term) ==
    IF tools = <<>> THEN <<>>
    ELSE (IF AboutTerm(Head(tools), term) THEN <<Head(tools)>> ELSE <<>>)
           \o ToolsAbout(Tail(tools), term)

\* C28: findToolsByCapability(term) returns what the vector query yields when
\* it yields anything, and otherwise exactly the discovered tools of which
\* the name, the description, the category or a capability holds the term,
\* in whatever case.
C28_SemanticHitsOrSubstringMatches ==
    (evaluation.fn = "findToolsByCapability" /\ evaluation.pc = "done") =>
        evaluation.ret =
            IF evaluation.semanticResults # <<>> THEN evaluation.semanticResults
            ELSE ToolsAbout(evaluation.allTools, evaluation.arg)

(***************************************************************************)
(* Properties of assessRisks on the answers of the model (SpecOutcome).    *)
(***************************************************************************)
\* The answer of the model has no SAFETY ANALYSIS: marker.
LacksSafetyAnalysis(text) ==
    \A i \in 1..Len(text) : ~OccursAt(text, SafetyAnalysisMarker, i)

\* C30: when the answer of the model to analyzeToolOutcome has no SAFETY
\* ANALYSIS: marker, so that the default text stands for the safety analysis,
\* assessRisks blocks the plan and does not call it a low risk operation.
C30_DefaultAnalysisBlocks ==
    (/\ evaluation.fn = "analyzeToolOutcome"
     /\ evaluation.pc = "done"
     /\ LacksSafetyAnalysis(evaluation.arg)) =>
        /\ evaluation.ret.shouldBlock
        /\ evaluation.ret.risks # <<"Low risk operation">>

(***************************************************************************)
(* Properties of the memoized sub-decisions (SpecMemo).                    *)
(***************************************************************************)
\* The first call has returned and the model failed in it.
FirstCallFailed ==
    /\ evaluation.fn = "getOrCreate"
    /\ evaluation.pc # "first"
    /\ ~evaluation.llm[1].ok

\* C31: when the call of the model fails in a sub-decision, the fallback is
\* stored under the key of the sub-decision, and a second call with the same
\* arguments made before the time-to-live of the entry has run out returns
\* that fallback, whatever the model would answer by then.
C31_FallbackIsMemoized ==
    FirstCallFailed =>
        /\ evaluation.ret[1] = MemoFallback(evaluation.sub)
        /\ (evaluation.pc = "second" /\ evaluation.since < TTL_LLM_ANALYSIS) =>
              /\ HasLLMAnalysis(llmAnalysisCache,
                     MemoKey(evaluation.sub, Request_Show, evaluation.parameters))
              /\ GetLLMAnalysis(llmAnalysisCache,
                     MemoKey(evaluation.sub, Request_Show, evaluation.parameters))
                   = MemoFallback(evaluation.sub)
        /\ (evaluation.pc = "done" /\ evaluation.since < TTL_LLM_ANALYSIS) =>
              evaluation.ret[2] = MemoFallback(evaluation.sub)

\* C31 witness: the model failed in the first call of getOrCreateToolSelection
\* and would have selected a tool in the second, which was made half a
\* time-to-live later and returned the fallback.
C31_Witness ==
    /\ FirstCallFailed
    /\ evaluation.sub = "selection"
    /\ evaluation.pc = "done"
    /\ evaluation.since = TTL_LLM_ANALYSIS \div 2
    /\ evaluation.llm[2] = LlmSays(Answer_SelectT1)
    /\ evaluation.ret[2] = SelectionFallback

(***************************************************************************)
(* Properties of the Tool Registry (SpecRegistry), third part.             *)
(***************************************************************************)
\* The step is a call of getAllTools() of registry r that went past the
\* cooldown (its stamp of the attempt is what tells the step from others).
AttemptBy(r) ==
    /\ lastOp'.kind = "getAllTools"
    /\ lastOp'.registry = r
    /\ ShouldAttemptDiscovery(r)
    /\ timeSinceLastAttempt'[r] = 0

\* What a step does to the error count of a server at a registry: the count
\* moves only when getAllTools() of the registry fetches from the server, to
\* zero when the server answers and up by one when it fails; a getAllTools()
\* that fetches while the count is at maxRetries or more and the breaker
\* window is over fetches from the server, and the breaker is open again
\* when the server fails.
ErrorCountStep(r, server, before, after) ==
    /\ after # before => (AttemptBy(r) /\ server \in lastOp'.fetched)
    /\ (AttemptBy(r) /\ server \in lastOp'.fetched) =>
          after = IF server \in lastOp'.succeeded THEN 0 ELSE before + 1
    /\ (/\ before >= maxRetries
        /\ ~IsServerBlocked(r, server)
        /\ AttemptBy(r)
        /\ lastOp'.path \in {"fetched", "fallback"}) =>
          /\ server \in lastOp'.fetched
          /\ server \notin lastOp'.succeeded => IsServerBlocked(r, server)'

\* C32: the error count of a server changes only by a failed fetch, which
\* adds one, and by a fetch that succeeds, which sets it to zero; the end of
\* the breaker window leaves it as it is, so the server is fetched again
\* after the window and one more failure opens the breaker at once.
C32_ErrorCountSteps ==
    [][\A r \in Registries, server \in Servers :
           ErrorCountStep(r, server, serverErrorCounts[r][server].count,
                          serverErrorCounts'[r][server].count)]_vars

\* C32 witness: a server that had failed maxRetries times was fetched again
\* after the window, failed once more, and its breaker is open.
C32_Witness ==
    /\ lastOp.kind = "getAllTools"
    /\ \E server \in lastOp.fetched \ lastOp.succeeded :
          /\ serverErrorCounts[lastOp.registry][server].count = maxRetries + 1
          /\ IsServerBlocked(lastOp.registry, server)

\* C33: a getAllTools() made past the cooldown fetches from every server
\* whose breaker is closed and that has no cached tool list, whatever is
\* cached for the other servers.
C33_UncachedServerIsFetched ==
    [][\A r \in Registries, server \in Servers :
           (/\ AttemptBy(r)
            /\ ~IsServerBlocked(r, server)
            /\ ~HasToolDiscovery(toolDiscoveryCache, server)) =>
               server \in lastOp'.fetched]_vars

(***************************************************************************)
(* Properties of refreshCache (SpecRefresh).                               *)
(***************************************************************************)
\* C34: when refreshCache() has returned, the discovery cache holds the tool
\* list of every server that is reachable and whose breaker is not open,
\* fetched by this call, however short a time ago the discovery before it
\* was attempted.
C34_RefreshRepopulates ==
    lastOp.kind = "refreshCache" =>
        \A server \in lastOp.reachable \ lastOp.blocked :
            /\ server \in lastOp.fetched
            /\ HasToolDiscovery(toolDiscoveryCache, server)

(***************************************************************************)
(* Properties of the Execution Tracker (SpecExecution), fourth part.       *)
(***************************************************************************)
\* The step is the return of the executeTool call of c with status completed.
ReturnsCompleted(c) ==
    /\ calls[c].pc # "returned" \/ calls[c].executionId # calls'[c].executionId
    /\ calls'[c].pc = "returned"
    /\ calls'[c].ret.status = "completed"

\* C35: when executeTool returns an execution id with status completed, from
\* the tool server or from the result cache, getExecutionStatus of that id
\* answers completed with the same result.
C35_CompletedIsReported ==
    [][\A c \in Callers :
           ReturnsCompleted(c) =>
               /\ ExecutionStatus(execStore', calls'[c].ret.executionId).status
                    = "completed"
               /\ ExecutionStatus(execStore', calls'[c].ret.executionId).result
                    = calls'[c].ret.result]_vars

(***************************************************************************)
(* Properties of the Orchestrator (Spec), fifth part.                      *)
(***************************************************************************)
\* The plan the flow stands at is a modified plan that consent.getConsent
\* has approved.
ModifiedPlanApproved ==
    /\ flow.inModify
    /\ trace.decision = "approved"
    /\ <<flow.tool, flow.parameters>> \in trace.approved

\* C36: a modified plan that consent.getConsent has approved goes on to
\* executeTool; the flow does not come to ask for consent for it again.
C36_ApprovedModifiedPlanRuns ==
    ModifiedPlanApproved => flow.pc \in {"assess", "execute", "executing"}

(***************************************************************************)
(* Properties of the Execution Tracker over failing stores                 *)
(* (SpecStoreFaults).                                                      *)
(***************************************************************************)
\* C37: an executeTool call to which the tool server has answered success
\* returns status completed with the result of the server, whether or not
\* the writes to the result cache and to the status store succeed; status
\* failed is returned to calls that got no such answer only.
C37_FailedOnlyWithoutAnswer ==
    \A c \in Callers :
        (calls[c].pc = "returned" /\ calls[c].answered) =>
            /\ calls[c].ret.status = "completed"
            /\ calls[c].ret.result = calls[c].response

(***************************************************************************)
(* Properties of the orchestrator of DynamicFlowInterface.ts               *)
(* (SpecHardBlock).                                                        *)
(***************************************************************************)
\* C38: a plan that the risk assessment blocks ends the request with the
\* blocked message, neither consent.getConsent nor executeTool being called
\* for it; and executeTool is called for a plan only straight after
\* consent.getConsent has approved that tool with those parameters.
C38_BlockedPlansEndTheRequest ==
    /\ (trace.assessed /\ trace.shouldBlock) =>
          /\ flow.pc = "returned"
          /\ flow.ret \in {HardBlockedMessage, ModifiedBlockedMessage}
          /\ trace.decision = "none"
          /\ trace.executed = {}
    /\ flow.pc = "execute" =>
          /\ trace.decision = "approved"
          /\ trace.consulted
          /\ <<flow.tool, flow.parameters>> \in trace.approved
          /\ ~trace.shouldBlock
    /\ trace.executed \subseteq trace.approved

\* C38 witness: the risk assessment of executeDynamicFlow has blocked a plan
\* and the request has ended with the blocked message.
C38_Witness ==
    /\ trace.assessed
    /\ trace.shouldBlock
    /\ trace.assessedIn = "executeDynamicFlow"
    /\ flow.pc = "returned"
    /\ flow.ret = HardBlockedMessage

(***************************************************************************)
(* Properties of the routes of the tool servers (SpecRoutes).              *)
(***************************************************************************)
\* C39: every request that names a configured server and goes on to a
\* connection has that connection opened to the address of the server it
\* names, whatever servers the requests before it named, and closed when
\* the request is over.
C39_OwnAddressAndClosed ==
    \A i \in 1..Len(evaluation.served) :
        evaluation.served[i].url # "" =>
            /\ evaluation.served[i].url = FindServer(evaluation.served[i].server).v
            /\ evaluation.served[i].closed

(***************************************************************************)
(* Properties of the path from the orchestrator to the tool server         *)
(* (SpecInvocation).                                                       *)
(***************************************************************************)
\* C40: the request that executeTool sends for a plan of the orchestrator
\* names a server the tool of the plan was discovered from, and what the
\* route hands to the tool server for it goes to that server under the name
\* of the tool with the parameters of the plan as its arguments.
C40_PlanReachesItsServer ==
    calls["flow"].contacted =>
        /\ calls["flow"].server \in DiscoveredFrom(calls["flow"].tool)
        /\ \A invocation \in evaluation.invocations :
              invocation.id = calls["flow"].executionId =>
                  /\ invocation.url \in DiscoveredFrom(calls["flow"].tool)
                  /\ invocation.name = Str(calls["flow"].tool)
                  /\ invocation.arguments = [t |-> "object", v |-> calls["flow"].params]

====
